---- MODULE Spec2Model ----
(***************************************************************************)
(* Model of the llama-config proxy: rule matching, the operation           *)
(* interpreter, the request / response pipelines and the streaming         *)
(* response worker.                                                        *)
(*                                                                         *)
(* Strings are sequences of one-character strings.  A regular expression   *)
(* is a literal; compiling it with the "(?i)" flag yields its case-folded  *)
(* form and MatchString finds it as a substring of the case-folded input.  *)
(* A JSON map is a function from a finite set of keys to values; Go's nil  *)
(* map is kept apart from the empty map (isNil) because writing to it      *)
(* panics.                                                                 *)
(***************************************************************************)
EXTENDS Integers, Sequences, FiniteSets, TLC

VARIABLES
    \* request / response pipeline (one request of one listener)
    cfg,        \* config.Config handed to the handlers (its Rules)
    recv,       \* the request as received (method, path, body, headers)
    req,        \* the *http.Request as mutated by ModifyRequest
    resp,       \* the *http.Response as mutated by ModifyResponse
    pc,         \* position of the request in the pipeline
    matched,    \* result of the last FindMatchingRules call (rule indices)
    trace,      \* per rule applied by ModifyRequest: index, body in, body out
    \* operation interpreter (one call of processOperations)
    opc,        \* position inside processOperations
    ist,        \* interpreter state: data, appliedValues, anyApplied, opChanges
    bodyStrings,\* toStringMap(data) taken on entry
    hdrs,       \* header map of the call
    cur,        \* the operation of the current loop iteration
    opIdx,      \* number of loop iterations started
    hist,       \* what the call did so far (for the properties)
    \* streaming response worker
    srule,      \* on_response operations of the rule handed to the worker
    upstream,   \* lines upstream has delivered so far, in order
    scanErr,    \* whether the upstream body ends with a read error
    feed,       \* "open" while upstream may deliver more, "ended" after
    wpc,        \* position of the worker goroutine
    line,       \* the line the worker holds
    pending,    \* chunks of the current line still to be written
    pipe,       \* the chunk offered to the pipe reader by a blocked Write
    client,     \* chunks the client has read from the pipe
    rclosed,    \* the client closed the pipe reader
    wclosed,    \* how the worker closed the pipe writer
    slog,       \* per scanned line: the line and what became of its write
    \* reload controller (main.go)
    disk,           \* what config.Load finds on disk: a configuration, or 0
    currentConfig,  \* the global currentConfig
    watchedFiles,   \* the global watchedFiles
    runningServers, \* the global runningServers
    ports,          \* who holds each listen address
    reloads,        \* the reloadConfig goroutines
    reqs,           \* requests accepted by the servers
    exited,         \* the process has exited (logger.Fatal)
    \* configuration loader (config.Load, Validate)
    ldIn,       \* input of the call
    ldSt,       \* position and working state of the call
    ldOut,      \* result of the call
    \* a rule run again on its own result (config/operations.go)
    rrule,      \* the operations of the rule
    rbody,      \* the body the first run receives
    rpc,        \* "build" while the rule is written, "ran" after a run
    runs        \* the interpreter state each run returned

reqVars == <<cfg, recv, req, resp, pc, matched, trace>>
opsVars == <<opc, ist, bodyStrings, hdrs, cur, opIdx, hist>>
strVars == <<srule, upstream, scanErr, feed, wpc, line, pending, pipe, client, rclosed, wclosed, slog>>
relVars == <<disk, currentConfig, watchedFiles, runningServers, ports, reloads, reqs, exited>>
ldVars == <<ldIn, ldSt, ldOut>>
runVars == <<rrule, rbody, rpc, runs>>
vars == <<cfg, recv, req, resp, pc, matched, trace,
          opc, ist, bodyStrings, hdrs, cur, opIdx, hist,
          srule, upstream, scanErr, feed, wpc, line, pending, pipe, client, rclosed, wclosed, slog,
          disk, currentConfig, watchedFiles, runningServers, ports, reloads, reqs, exited,
          ldIn, ldSt, ldOut,
          rrule, rbody, rpc, runs>>

-----------------------------------------------------------------------------
(* Bounds *)

MaxRules == 2
MaxOps == 3
MaxLines == 3
MaxMatchRules == 3
MaxReloads == 2
MaxReqs == 2
MaxProxies == 2
MaxDepth == 3
MaxRerunOps == 2

-----------------------------------------------------------------------------
(* Strings, regular expressions, PatternField *)

Fold(c) ==
    CASE c = "P" -> "p"
      [] c = "G" -> "g"
      [] c = "X" -> "x"
      [] OTHER -> c

FoldStr(s) == [i \in DOMAIN s |-> Fold(s[i])]

\* regexp.Compile("(?i)" + pattern)
Compile(pattern) == FoldStr(pattern)

\* (*regexp.Regexp).MatchString: an unanchored search
MatchString(re, input) ==
    \E i \in 0..(Len(input) - Len(re)) :
        \A j \in 1..Len(re) : Fold(input[i + j]) = re[j]

\* PatternField.Validate: compiles every pattern
Validate(p) ==
    [Patterns |-> p.Patterns,
     Compiled |-> [i \in DOMAIN p.Patterns |-> Compile(p.Patterns[i])]]

\* PatternField.Matches: any compiled pattern matches
Matches(p, input) ==
    \E i \in DOMAIN p.Compiled : MatchString(p.Compiled[i], input)

newPatternField(patterns) == Validate([Patterns |-> patterns, Compiled |-> <<>>])

-----------------------------------------------------------------------------
(* JSON maps *)

Keys == {"a", "b"}
Values == {1, 2}
\* the sentinel "<deleted>" of appliedValues, a value no body holds
Deleted == 0

EmptyMap == [k \in {} |-> 0]

Maps(V) == UNION {[S -> V] : S \in SUBSET Keys}

\* maps.Copy(dst, src)
Copy(dst, src) ==
    [x \in (DOMAIN dst) \cup (DOMAIN src) |-> IF x \in DOMAIN src THEN src[x] ELSE dst[x]]

\* fmt.Sprintf("%v", value)
Sprint(v) ==
    CASE v = 1 -> <<"1">>
      [] v = 2 -> <<"2">>

\* toStringMap
toStringMap(data) == [k \in DOMAIN data |-> Sprint(data[k])]

-----------------------------------------------------------------------------
(* Operation interpreter: config/operations.go *)

NoOp ==
    [MatchBody |-> EmptyMap, MatchHeaders |-> EmptyMap, Template |-> "",
     Merge |-> EmptyMap, Default |-> EmptyMap, Delete |-> <<>>, Stop |-> FALSE]

\* Templates the model knows, by their text:
\*   tconst  {"b": 1}
\*   tcopy   {"b": {{.a}}}     (prints "<no value>" when .a is missing)
TemplateSet == {"", "tconst", "tcopy"}

\* tmpl.Execute followed by json.Unmarshal of its output
TemplateResult(tmpl, input) ==
    CASE tmpl = "tconst" -> [ok |-> TRUE, result |-> [k \in {"b"} |-> 1]]
      [] tmpl = "tcopy" ->
            IF "a" \in DOMAIN input
            THEN [ok |-> TRUE, result |-> [k \in {"b"} |-> input["a"]]]
            ELSE [ok |-> FALSE, result |-> EmptyMap]
      [] OTHER -> [ok |-> FALSE, result |-> EmptyMap]

\* Interpreter state on entry of processOperations
EnterOps(data) ==
    [kv |-> data.kv, isNil |-> data.isNil, panicked |-> FALSE,
     appliedValues |-> EmptyMap, anyApplied |-> FALSE, opChanges |-> EmptyMap]

\* assignment to an entry of a nil map
Panic(s) == [s EXCEPT !.panicked = TRUE]

\* an ExecuteTemplate that adds the result to the output without clearing it
ExecuteTemplateKeeps(s, tmpl) ==
    LET r == TemplateResult(tmpl, s.kv) IN
    IF ~r.ok THEN s
    ELSE IF s.isNil /\ DOMAIN r.result # {} THEN Panic(s)
    ELSE [s EXCEPT !.kv = Copy(s.kv, r.result),
                   !.appliedValues = Copy(s.appliedValues, Copy(s.kv, r.result)),
                   !.opChanges = Copy(s.opChanges, Copy(s.kv, r.result)),
                   !.anyApplied = TRUE]

\* ExecuteTemplate(templates[i], data, data) and the bookkeeping that follows it
ExecuteTemplate(s, tmpl) ==
    LET r == TemplateResult(tmpl, s.kv) IN
    IF ~r.ok THEN s
    ELSE IF s.isNil /\ DOMAIN r.result # {} THEN Panic(s)
    ELSE [s EXCEPT !.kv = r.result,
                   !.appliedValues = Copy(s.appliedValues, r.result),
                   !.opChanges = Copy(s.opChanges, r.result),
                   !.anyApplied = TRUE]

\* a merge that records only the keys whose value it changed
applyMergeRecordsChanges(s, mergeValues) ==
    LET changed == {k \in DOMAIN mergeValues :
                       k \notin DOMAIN s.kv \/ s.kv[k] # mergeValues[k]}
    IN  IF DOMAIN mergeValues = {} THEN s
        ELSE IF s.isNil THEN Panic(s)
        ELSE [s EXCEPT !.kv = Copy(s.kv, mergeValues),
                       !.opChanges = Copy(s.opChanges, [k \in changed |-> mergeValues[k]])]

applyMerge(s, mergeValues) ==
    IF DOMAIN mergeValues = {} THEN s
    ELSE IF s.isNil THEN Panic(s)
    ELSE [s EXCEPT !.kv = Copy(s.kv, mergeValues),
                   !.opChanges = Copy(s.opChanges, mergeValues)]

\* a default that overwrites like merge
applyDefaultOverwrites(s, defaultValues) == applyMerge(s, defaultValues)

applyDefault(s, defaultValues) ==
    LET absent == (DOMAIN defaultValues) \ (DOMAIN s.kv)
        set == [k \in absent |-> defaultValues[k]]
    IN  IF absent = {} THEN s
        ELSE IF s.isNil THEN Panic(s)
        ELSE [s EXCEPT !.kv = Copy(s.kv, set),
                       !.opChanges = Copy(s.opChanges, set)]

\* a delete that removes the keys without recording them
applyDeleteUnrecorded(s, deleteKeys) ==
    LET present == {deleteKeys[i] : i \in DOMAIN deleteKeys} \cap (DOMAIN s.kv)
    IN  [s EXCEPT !.kv = [k \in (DOMAIN s.kv) \ present |-> s.kv[k]]]

applyDelete(s, deleteKeys) ==
    LET present == {deleteKeys[i] : i \in DOMAIN deleteKeys} \cap (DOMAIN s.kv)
    IN  [s EXCEPT !.kv = [k \in (DOMAIN s.kv) \ present |-> s.kv[k]],
                  !.opChanges = Copy(s.opChanges, [k \in present |-> Deleted])]

\* for k, v := range opChanges { appliedValues[k] = v }
Record(s) == [s EXCEPT !.appliedValues = Copy(s.appliedValues, s.opChanges)]

\* the body-matching block of one loop iteration
bodyMatch(matchBody, strings) ==
    \A key \in DOMAIN matchBody :
        key \in DOMAIN strings /\ Matches(matchBody[key], strings[key])

\* the header-matching block of one loop iteration
headersMatch(matchHeaders, headers) ==
    \A key \in DOMAIN matchHeaders :
        key \in DOMAIN headers /\ Matches(matchHeaders[key], headers[key])

\* opChanges := make(map); template step
stepTemplate(s, tmpl) ==
    LET s0 == [s EXCEPT !.opChanges = EmptyMap] IN
    IF tmpl # "" THEN ExecuteTemplate(s0, tmpl) ELSE s0

stepDefault(s, defaultValues) ==
    IF s.panicked \/ DOMAIN defaultValues = {} THEN s
    ELSE LET r == applyDefault(s, defaultValues) IN
         IF r.panicked THEN r ELSE Record(r)

\* a merge that leaves the keys the body already holds (applyDefault in its place)
stepMergeSkipsPresent(s, mergeValues) ==
    IF s.panicked \/ DOMAIN mergeValues = {} THEN s
    ELSE LET r == applyDefault(s, mergeValues) IN
         IF r.panicked THEN r ELSE Record(r)

stepMerge(s, mergeValues) ==
    IF s.panicked \/ DOMAIN mergeValues = {} THEN s
    ELSE LET r == applyMerge(s, mergeValues) IN
         IF r.panicked THEN r ELSE Record(r)

stepDelete(s, deleteKeys) ==
    IF s.panicked \/ Len(deleteKeys) = 0 THEN s
    ELSE Record(applyDelete(s, deleteKeys))

\* if len(opChanges) > 0 { anyApplied = true }
stepChanges(s) ==
    IF s.panicked \/ DOMAIN s.opChanges = {} THEN s
    ELSE [s EXCEPT !.anyApplied = TRUE]

\* the body of one loop iteration whose conditions held
execOperation(s, op) ==
    stepChanges(stepDelete(stepMerge(stepDefault(stepTemplate(s, op.Template),
        op.Default), op.Merge), op.Delete))

\* a skipped operation with stop: true ends the loop
afterSkipStops(op) == IF op.Stop THEN "done" ELSE "loop"

\* continue: a skipped operation goes on to the next iteration
afterSkip(op) == "loop"

\* break only on the first operation's stop flag
stopsLoopFirstOnly(op, i) == op.Stop /\ i = 1

\* if op.Stop { break }
stopsLoop(op, i) == op.Stop

RECURSIVE opLoop(_, _, _, _, _)
opLoop(s, strings, headers, operations, i) ==
    IF i > Len(operations) THEN s
    ELSE LET op == operations[i] IN
         IF ~bodyMatch(op.MatchBody, strings) THEN opLoop(s, strings, headers, operations, i + 1)
         ELSE IF ~headersMatch(op.MatchHeaders, headers) THEN opLoop(s, strings, headers, operations, i + 1)
         ELSE LET r == execOperation(s, op) IN
              IF r.panicked \/ stopsLoop(op, i) THEN r
              ELSE opLoop(r, strings, headers, operations, i + 1)

\* processOperations(data, headers, operations, templates)
processOperations(data, headers, operations) ==
    opLoop(EnterOps(data), toStringMap(data.kv), headers, operations, 1)

-----------------------------------------------------------------------------
(* Idle values of the parts a specification does not exercise *)

NoBytes == [kind |-> "empty", kv |-> EmptyMap, compact |-> TRUE]
NoRequest == [Method |-> <<>>, Path |-> <<>>, Body |-> NoBytes, Header |-> EmptyMap,
              ContentLength |-> 0, ctxRule |-> 0]
NoResponse == [ContentType |-> "", Body |-> NoBytes, streaming |-> FALSE]
NilData == [isNil |-> TRUE, kv |-> EmptyMap]
NoLine == [pfx |-> FALSE, payload |-> [kind |-> "none", kv |-> EmptyMap, compact |-> TRUE]]

IdleReq ==
    /\ cfg = [Rules |-> <<>>]
    /\ recv = NoRequest
    /\ req = NoRequest
    /\ resp = NoResponse
    /\ pc = "idle"
    /\ matched = <<>>
    /\ trace = <<>>

IdleRel ==
    /\ disk = 0
    /\ currentConfig = 0
    /\ watchedFiles = {}
    /\ runningServers = <<>>
    /\ ports = <<>>
    /\ reloads = <<>>
    /\ reqs = <<>>
    /\ exited = FALSE

IdleLd ==
    /\ ldIn = <<>>
    /\ ldSt = <<>>
    /\ ldOut = <<>>

\* nothing has happened in the call yet
NoHistory ==
    [executed |-> 0, stopFired |-> FALSE, skippedStop |-> FALSE, defaulted |-> EmptyMap]

IdleRun ==
    /\ rrule = <<>>
    /\ rbody = NilData
    /\ rpc = "idle"
    /\ runs = <<>>

IdleOps ==
    /\ opc = "idle"
    /\ ist = EnterOps(NilData)
    /\ bodyStrings = EmptyMap
    /\ hdrs = EmptyMap
    /\ cur = NoOp
    /\ opIdx = 0
    /\ hist = NoHistory

IdleStr ==
    /\ srule = <<>>
    /\ upstream = <<>>
    /\ scanErr = FALSE
    /\ feed = "open"
    /\ wpc = "idle"
    /\ line = NoLine
    /\ pending = <<>>
    /\ pipe = <<>>
    /\ client = <<>>
    /\ rclosed = FALSE
    /\ wclosed = "open"
    /\ slog = <<>>

-----------------------------------------------------------------------------
(* SpecOps: one call of processOperations, one loop iteration at a time.   *)
(* The operation list is read as the loop reads it: each field of the      *)
(* current operation is drawn when the code first looks at it.             *)

PatternOf(c) == newPatternField(<<<<c>>>>)

MatchBodySet == {EmptyMap, [k \in {"a"} |-> PatternOf("1")]}
MatchHeadersSet == {EmptyMap, [k \in {"h"} |-> PatternOf("x")]}
DefaultSet == {EmptyMap, [k \in {"a"} |-> 1], [k \in {"b"} |-> 2]}
MergeSet == {EmptyMap, [k \in {"a"} |-> 2], [k \in {"b"} |-> 1]}
DeleteSet == {<<>>, <<"a">>}
HeaderMaps == {EmptyMap, [k \in {"h"} |-> <<"X">>]}
DataSet == {NilData} \cup {[isNil |-> FALSE, kv |-> m] : m \in Maps(Values)}

InitOps ==
    /\ IdleReq
    /\ IdleStr
    /\ IdleRel
    /\ IdleLd
    /\ IdleRun
    /\ \E data \in DataSet :
         /\ ist = EnterOps(data)
         /\ bodyStrings = toStringMap(data.kv)
    /\ hdrs \in HeaderMaps
    /\ opc = "loop"
    /\ cur = NoOp
    /\ opIdx = 0
    /\ hist = NoHistory

\* for i, op := range operations: the match conditions; a failed one continues
BeginOp ==
    /\ opc = "loop"
    /\ opIdx < MaxOps
    /\ \E mb \in MatchBodySet, mh \in MatchHeadersSet :
         IF bodyMatch(mb, bodyStrings) /\ headersMatch(mh, hdrs)
         THEN /\ cur' = [NoOp EXCEPT !.MatchBody = mb, !.MatchHeaders = mh]
              /\ opc' = "template"
              /\ hist' = [hist EXCEPT !.executed = @ + 1, !.defaulted = EmptyMap]
         ELSE \E stop \in BOOLEAN :
              /\ cur' = [NoOp EXCEPT !.MatchBody = mb, !.MatchHeaders = mh, !.Stop = stop]
              /\ opc' = afterSkip(cur')
              /\ hist' = [hist EXCEPT !.skippedStop = @ \/ stop]
    /\ opIdx' = opIdx + 1
    /\ UNCHANGED <<ist, bodyStrings, hdrs>>
    /\ UNCHANGED <<reqVars, strVars, relVars, ldVars, runVars>>

\* Execute template if present
DoTemplate ==
    /\ opc = "template"
    /\ \E t \in TemplateSet :
         /\ cur' = [cur EXCEPT !.Template = t]
         /\ ist' = stepTemplate(ist, t)
    /\ opc' = IF ist'.panicked THEN "panic" ELSE "default"
    /\ UNCHANGED <<bodyStrings, hdrs, opIdx, hist>>
    /\ UNCHANGED <<reqVars, strVars, relVars, ldVars, runVars>>

\* if len(op.Default) > 0 { applyDefault ... }
DoDefault ==
    /\ opc = "default"
    /\ \E d \in DefaultSet :
         /\ cur' = [cur EXCEPT !.Default = d]
         /\ ist' = stepDefault(ist, d)
         /\ hist' = [hist EXCEPT !.defaulted =
                        [k \in (DOMAIN d) \ (DOMAIN ist.kv) |-> d[k]]]
    /\ opc' = IF ist'.panicked THEN "panic" ELSE "merge"
    /\ UNCHANGED <<bodyStrings, hdrs, opIdx>>
    /\ UNCHANGED <<reqVars, strVars, relVars, ldVars, runVars>>

\* if len(op.Merge) > 0 { applyMerge ... }
DoMerge ==
    /\ opc = "merge"
    /\ \E m \in MergeSet :
         /\ cur' = [cur EXCEPT !.Merge = m]
         /\ ist' = stepMerge(ist, m)
    /\ opc' = IF ist'.panicked THEN "panic" ELSE "delete"
    /\ UNCHANGED <<bodyStrings, hdrs, opIdx, hist>>
    /\ UNCHANGED <<reqVars, strVars, relVars, ldVars, runVars>>

\* if len(op.Delete) > 0 { applyDelete ... }
DoDelete ==
    /\ opc = "delete"
    /\ \E d \in DeleteSet :
         /\ cur' = [cur EXCEPT !.Delete = d]
         /\ ist' = stepDelete(ist, d)
    /\ opc' = "stop"
    /\ UNCHANGED <<bodyStrings, hdrs, opIdx, hist>>
    /\ UNCHANGED <<reqVars, strVars, relVars, ldVars, runVars>>

\* Show changes if any; if op.Stop { break }
EndOp ==
    /\ opc = "stop"
    /\ \E stop \in BOOLEAN :
         /\ cur' = [cur EXCEPT !.Stop = stop]
         /\ hist' = [hist EXCEPT !.stopFired = @ \/ stop]
    /\ ist' = stepChanges(ist)
    /\ opc' = IF stopsLoop(cur', opIdx) THEN "done" ELSE "loop"
    /\ UNCHANGED <<bodyStrings, hdrs, opIdx>>
    /\ UNCHANGED <<reqVars, strVars, relVars, ldVars, runVars>>

\* the range loop is exhausted: return anyApplied, appliedValues
ReturnOps ==
    /\ opc = "loop"
    /\ opc' = "done"
    /\ UNCHANGED <<ist, bodyStrings, hdrs, cur, opIdx, hist>>
    /\ UNCHANGED <<reqVars, strVars, relVars, ldVars, runVars>>

NextOps ==
    \/ BeginOp
    \/ DoTemplate
    \/ DoDefault
    \/ DoMerge
    \/ DoDelete
    \/ EndOp
    \/ ReturnOps

SpecOps == InitOps /\ [][NextOps]_vars

-----------------------------------------------------------------------------
(* Bodies as bytes.  kind: "empty" (no bytes), "text" (bytes that             *)
(* json.Unmarshal rejects for a map: prose, an array, a number, a string),   *)
(* "null" (the JSON value null) or "obj" (a JSON object with members kv).    *)
(* compact tells whether the bytes are the ones json.Marshal produces.       *)
(* "big" is a body one byte longer than the read cap and "cut" its first     *)
(* BodyLimit bytes; json.Unmarshal rejects both.                             *)

TextBytes == [kind |-> "text", kv |-> EmptyMap, compact |-> FALSE]
\* the marker [DONE], the prefix "data: " and the line terminator "\n"
DoneBytes == [kind |-> "done", kv |-> EmptyMap, compact |-> TRUE]
PrefixBytes == [kind |-> "prefix", kv |-> EmptyMap, compact |-> TRUE]
NewlineBytes == [kind |-> "nl", kv |-> EmptyMap, compact |-> TRUE]
NullBytes(c) == [kind |-> "null", kv |-> EmptyMap, compact |-> c]
ObjBytes(m, c) == [kind |-> "obj", kv |-> m, compact |-> c]
BigBytes == [kind |-> "big", kv |-> EmptyMap, compact |-> FALSE]
CutBytes == [kind |-> "cut", kv |-> EmptyMap, compact |-> FALSE]

\* the read cap of io.LimitReader(req.Body, 10*1024*1024)
BodyLimit == 10 * 1024 * 1024

\* len(body); what matters is that it is 0 exactly for no bytes
ByteLen(b) ==
    CASE b.kind = "empty" -> 0
      [] b.kind = "text" -> 8
      [] b.kind = "null" -> IF b.compact THEN 4 ELSE 5
      [] b.kind = "obj" -> 2 + 4 * Cardinality(DOMAIN b.kv) + (IF b.compact THEN 0 ELSE 1)
      [] b.kind = "big" -> BodyLimit + 1
      [] b.kind = "cut" -> BodyLimit

\* io.ReadAll(io.LimitReader(req.Body, BodyLimit)): at most BodyLimit bytes
ReadAll(b) == IF ByteLen(b) > BodyLimit THEN CutBytes ELSE b

\* json.Unmarshal(body, &data) with data a map[string]any
Unmarshal(b) ==
    CASE b.kind = "obj" -> [err |-> FALSE, data |-> [isNil |-> FALSE, kv |-> b.kv]]
      [] b.kind = "null" -> [err |-> FALSE, data |-> NilData]
      [] OTHER -> [err |-> TRUE, data |-> NilData]

\* json.Marshal(data)
Marshal(data) ==
    IF data.isNil THEN NullBytes(TRUE) ELSE ObjBytes(data.kv, TRUE)

-----------------------------------------------------------------------------
(* Rule matching and the request / response handlers: proxy/handler.go *)

RECURSIVE matchLoop(_, _, _, _)
matchLoop(r, c, i, matchedRules) ==
    IF i > Len(c.Rules) THEN matchedRules
    ELSE LET rule == c.Rules[i]
             methodMatch == Matches(rule.Methods, r.Method)
             pathMatch == Matches(rule.Paths, r.Path)
         IN  IF methodMatch /\ pathMatch
             THEN matchLoop(r, c, i + 1, Append(matchedRules, i))
             ELSE matchLoop(r, c, i + 1, matchedRules)

\* only the first match is returned
FindFirstMatchingRule(r, c) ==
    LET hits == {i \in DOMAIN c.Rules :
                    Matches(c.Rules[i].Methods, r.Method) /\ Matches(c.Rules[i].Paths, r.Path)}
    IN  IF hits = {} THEN <<>> ELSE <<CHOOSE i \in hits : \A j \in hits : i <= j>>

\* FindMatchingRules(req, cfg): the matched rules, as indices into cfg.Rules
FindMatchingRules(r, c) == matchLoop(r, c, 1, <<>>)

\* State of the rule loop of ModifyRequest: req.URL.Path, data, lastMatchedRule,
\* and (for the properties) the rules it applied and each interpreter call
EnterRules(r, data) ==
    [path |-> r.Path, data |-> data, last |-> 0, panicked |-> FALSE,
     applied |-> <<>>, calls |-> <<>>]

RECURSIVE ruleLoop(_, _, _, _, _, _)
ruleLoop(a, r, c, hasJSONBody, headers, i) ==
    IF i > Len(c.Rules) THEN a
    ELSE LET rule == c.Rules[i]
             methodMatch == Matches(rule.Methods, r.Method)
             pathMatch == Matches(rule.Paths, a.path)
             a1 == [a EXCEPT !.last = i,
                             !.applied = Append(@, i),
                             !.path = IF rule.TargetPath # <<>> THEN rule.TargetPath ELSE @]
         IN  IF ~methodMatch \/ ~pathMatch THEN ruleLoop(a, r, c, hasJSONBody, headers, i + 1)
             ELSE IF ~hasJSONBody THEN ruleLoop(a1, r, c, hasJSONBody, headers, i + 1)
             ELSE IF Len(rule.OnRequest) = 0 THEN ruleLoop(a1, r, c, hasJSONBody, headers, i + 1)
             ELSE LET res == processOperations(a1.data, headers, rule.OnRequest)
                      out == [isNil |-> res.isNil, kv |-> res.kv]
                      call == [rule |-> i, in |-> a1.data, out |-> out]
                  IN  IF res.panicked
                      THEN [a1 EXCEPT !.panicked = TRUE, !.calls = Append(@, call)]
                      ELSE ruleLoop([a1 EXCEPT !.data = out, !.calls = Append(@, call)],
                                    r, c, hasJSONBody, headers, i + 1)

\* ModifyRequest(req, cfg): the request it leaves behind and the loop's record
ModifyRequest(r, c) ==
    LET body == ReadAll(r.Body)
        parsed == Unmarshal(body)
        hasJSONBody == ByteLen(body) > 0 /\ ~parsed.err
        a == ruleLoop(EnterRules(r, parsed.data), r, c, hasJSONBody, r.Header, 1)
        modifiedBody == Marshal(a.data)
    IN  [panicked |-> a.panicked,
         loop |-> a,
         req |-> [Method |-> r.Method,
                  Path |-> a.path,
                  Header |-> r.Header,
                  ctxRule |-> a.last,
                  Body |-> IF hasJSONBody THEN modifiedBody ELSE body,
                  ContentLength |-> IF hasJSONBody THEN ByteLen(modifiedBody)
                                    ELSE r.ContentLength]]

\* header map built for matching: first value of every header
RespHeaders(rs) == [k \in {"Content-Type"} |-> <<rs.ContentType>>]

\* ModifyResponse(resp, cfg), resp.Request being the request ModifyRequest left
ModifyResponse(rs, r, c) ==
    LET unchanged == [panicked |-> FALSE, ran |-> 0, resp |-> rs]
        matchingRule == r.ctxRule
    IN  IF matchingRule = 0 THEN unchanged
        ELSE IF Len(c.Rules[matchingRule].OnResponse) = 0 THEN unchanged
        ELSE IF rs.ContentType = "text/event-stream"
             THEN [panicked |-> FALSE, ran |-> 0, resp |-> [rs EXCEPT !.streaming = TRUE]]
        ELSE IF rs.ContentType # "application/json" THEN unchanged
        ELSE LET parsed == Unmarshal(rs.Body) IN
             IF parsed.err THEN unchanged
             ELSE LET res == processOperations(parsed.data, RespHeaders(rs),
                                               c.Rules[matchingRule].OnResponse)
                  IN  [panicked |-> res.panicked,
                       ran |-> matchingRule,
                       resp |-> [rs EXCEPT !.Body = Marshal([isNil |-> res.isNil, kv |-> res.kv])]]

-----------------------------------------------------------------------------
(* Spec: one request through ModifyRequest and ModifyResponse, under every  *)
(* configuration of up to MaxRules rules.                                   *)

A1 == [k \in {"a"} |-> 1]
A2 == [k \in {"a"} |-> 2]
B1 == [k \in {"b"} |-> 1]
B2 == [k \in {"b"} |-> 2]

OpMergeA == [NoOp EXCEPT !.Merge = A1]
OpCondMergeB == [NoOp EXCEPT !.MatchBody = [k \in {"a"} |-> PatternOf("1")], !.Merge = B2]
OpRespMergeA == [NoOp EXCEPT !.Merge = A2]
OpRespDefaultB == [NoOp EXCEPT !.Default = B1]

\* on_request / on_response of a rule; at least one of them is non-empty
OpProfiles ==
    {<<(<<OpMergeA>>), <<>>>>,
     <<(<<OpCondMergeB>>), <<>>>>,
     <<(<<>>), <<OpRespMergeA>>>>,
     <<(<<OpMergeA>>), <<OpRespDefaultB>>>>}

PathA == <<"/", "a">>
PathB == <<"/", "b">>

RuleSet ==
    {[Methods |-> PatternOf(m), Paths |-> PatternOf(p), TargetPath |-> t,
      OnRequest |-> o[1], OnResponse |-> o[2]] :
        m \in {"p", "g"}, p \in {"a", "b"}, t \in {<<>>, PathA, PathB}, o \in OpProfiles}

RuleLists == UNION {[1..n -> RuleSet] : n \in 0..MaxRules}

RequestBodies ==
    {NoBytes, TextBytes, NullBytes(TRUE), ObjBytes(EmptyMap, TRUE), ObjBytes(A1, FALSE),
     BigBytes}

Requests ==
    {[Method |-> <<"P">>, Path |-> p, Body |-> b, Header |-> EmptyMap,
      ContentLength |-> ByteLen(b), ctxRule |-> 0] :
        p \in {PathA, PathB}, b \in RequestBodies}

ResponseBodies == {TextBytes, NullBytes(TRUE), ObjBytes(B2, FALSE)}
ContentTypes == {"application/json", "text/event-stream", "text/plain"}

Init ==
    /\ IdleOps
    /\ IdleStr
    /\ IdleRel
    /\ IdleLd
    /\ IdleRun
    /\ cfg \in [Rules : RuleLists]
    /\ recv \in Requests
    /\ req = recv
    /\ resp = NoResponse
    /\ pc = "accept"
    /\ matched = <<>>
    /\ trace = EnterRules(recv, NilData)

\* the reverse proxy's Director runs ModifyRequest; a panic aborts the request
DoModifyRequest ==
    /\ pc = "accept"
    /\ LET m == ModifyRequest(req, cfg) IN
         /\ trace' = m.loop
         /\ IF m.panicked
            THEN /\ pc' = "panic"
                 /\ req' = req
            ELSE /\ pc' = "forwarded"
                 /\ req' = m.req
    /\ UNCHANGED <<cfg, recv, resp, matched>>
    /\ UNCHANGED <<opsVars, strVars, relVars, ldVars, runVars>>

\* the upstream answers and the reverse proxy runs ModifyResponse
DoModifyResponse ==
    /\ pc = "forwarded"
    /\ \E ct \in ContentTypes, b \in ResponseBodies :
         LET rs == [ContentType |-> ct, Body |-> b, streaming |-> FALSE]
             m == ModifyResponse(rs, req, cfg)
         IN  /\ resp' = [in |-> rs, out |-> m.resp, ran |-> m.ran]
             /\ pc' = IF m.panicked THEN "resp-panic"
                      ELSE IF m.resp.streaming THEN "streaming" ELSE "responded"
    /\ UNCHANGED <<cfg, recv, req, matched, trace>>
    /\ UNCHANGED <<opsVars, strVars, relVars, ldVars, runVars>>

Next ==
    \/ DoModifyRequest
    \/ DoModifyResponse

Spec == Init /\ [][Next]_vars

-----------------------------------------------------------------------------
(* SpecMatch: FindMatchingRules called on a request, under every list of up *)
(* to MaxMatchRules rules; methods and paths may hold several patterns.     *)

MatchRuleSet ==
    {[Methods |-> m, Paths |-> PatternOf(p), TargetPath |-> <<>>,
      OnRequest |-> <<OpMergeA>>, OnResponse |-> <<>>] :
        m \in {PatternOf("p"), PatternOf("g"), newPatternField(<<(<<"p">>), (<<"g">>)>>)},
        p \in {"a", "b"}}

MatchRuleLists == UNION {[1..n -> MatchRuleSet] : n \in 0..MaxMatchRules}

MatchRequests ==
    {[Method |-> m, Path |-> p, Body |-> NoBytes, Header |-> EmptyMap,
      ContentLength |-> 0, ctxRule |-> 0] :
        m \in {<<"P">>, <<"G">>}, p \in {PathA, PathB}}

InitMatch ==
    /\ IdleOps
    /\ IdleStr
    /\ IdleRel
    /\ IdleLd
    /\ IdleRun
    /\ cfg \in [Rules : MatchRuleLists]
    /\ recv \in MatchRequests
    /\ req = recv
    /\ resp = NoResponse
    /\ pc = "accept"
    /\ matched = <<>>
    /\ trace = EnterRules(recv, NilData)

\* FindMatchingRules is called on the request as received
CallFindMatchingRules ==
    /\ pc = "accept"
    /\ matched' = FindMatchingRules(req, cfg)
    /\ pc' = "found"
    /\ UNCHANGED <<cfg, recv, req, resp, trace>>
    /\ UNCHANGED <<opsVars, strVars, relVars, ldVars, runVars>>

NextMatch == CallFindMatchingRules

SpecMatch == InitMatch /\ [][NextMatch]_vars

-----------------------------------------------------------------------------
(* SpecStream: the worker goroutine of ModifyStreamingResponse, the pipe and *)
(* the client reading it.  A line is what scanner.Text() returns: whether it *)
(* starts with "data: " and the bytes after that prefix.  What travels       *)
(* through the pipe is a sequence of byte tokens.                            *)

\* []byte(line + "\n")
LineBytes(l) ==
    (IF l.pfx THEN <<PrefixBytes>> ELSE <<>>) \o <<l.payload, NewlineBytes>>

\* line == ""
IsEmptyLine(l) == ~l.pfx /\ l.payload.kind = "empty"

\* One iteration of the scanner loop up to its first Write: the Write calls it
\* makes in order, whether a failed Write ends the worker (return) or only is
\* logged (continue), and whether ProcessResponse panicked.
HandleLine(l, headers, ops) ==
    IF IsEmptyLine(l)
    THEN [panicked |-> FALSE, writes |-> <<(<<NewlineBytes>>)>>, onFail |-> "return"]
    ELSE IF l.pfx /\ l.payload.kind = "done"
    THEN [panicked |-> FALSE, writes |-> <<LineBytes(l)>>, onFail |-> "continue"]
    ELSE LET parsed == Unmarshal(l.payload) IN
         IF parsed.err
         THEN [panicked |-> FALSE, writes |-> <<LineBytes(l)>>, onFail |-> "continue"]
         ELSE LET res == processOperations(parsed.data, headers, ops)
                  modifiedJSON == Marshal([isNil |-> res.isNil, kv |-> res.kv])
              IN  [panicked |-> res.panicked,
                   writes |-> (IF l.pfx THEN <<(<<PrefixBytes>>)>> ELSE <<>>)
                              \o <<(<<modifiedJSON>>), (<<NewlineBytes>>)>>,
                   onFail |-> "return"]

StreamHeaders == [k \in {"Content-Type"} |-> <<"text/event-stream">>]

StreamRules ==
    {<<OpRespMergeA>>, <<OpRespDefaultB>>, <<[NoOp EXCEPT !.Delete = <<"a">>]>>}

Lines ==
    {[pfx |-> FALSE, payload |-> NoBytes],
     [pfx |-> TRUE, payload |-> DoneBytes],
     [pfx |-> FALSE, payload |-> TextBytes],
     [pfx |-> TRUE, payload |-> TextBytes],
     [pfx |-> FALSE, payload |-> ObjBytes(A1, FALSE)],
     [pfx |-> TRUE, payload |-> ObjBytes(EmptyMap, TRUE)],
     [pfx |-> FALSE, payload |-> NullBytes(TRUE)],
     [pfx |-> TRUE, payload |-> NullBytes(TRUE)]}

InitStream ==
    /\ IdleReq
    /\ IdleOps
    /\ IdleRel
    /\ IdleLd
    /\ IdleRun
    /\ srule \in StreamRules
    /\ upstream = <<>>
    /\ scanErr = FALSE
    /\ feed = "open"
    /\ wpc = "scan"
    /\ line = NoLine
    /\ pending = <<>>
    /\ pipe = <<>>
    /\ client = <<>>
    /\ rclosed = FALSE
    /\ wclosed = "open"
    /\ slog = [read |-> 0, written |-> <<>>, failed |-> <<>>]

\* upstream delivers its next line; the scanner's Read can now return it
UpstreamSend ==
    /\ feed = "open"
    /\ Len(upstream) < MaxLines
    /\ \E l \in Lines : upstream' = Append(upstream, l)
    /\ UNCHANGED <<srule, scanErr, feed, wpc, line, pending, pipe, client, rclosed,
                   wclosed, slog>>
    /\ UNCHANGED <<reqVars, opsVars, relVars, ldVars, runVars>>

\* upstream ends the body: EOF, or an error the scanner reports
UpstreamEnd ==
    /\ feed = "open"
    /\ feed' = "ended"
    /\ scanErr' \in BOOLEAN
    /\ UNCHANGED <<srule, upstream, wpc, line, pending, pipe, client, rclosed,
                   wclosed, slog>>
    /\ UNCHANGED <<reqVars, opsVars, relVars, ldVars, runVars>>

\* the loop body is entered again only from the loop head
ScannerReadyEarly(p) == p \in {"scan", "write"}
\* for scanner.Scan() { ... }
ScannerReady(p) == p = "scan"

\* scanner.Scan() returns true: the next line is taken and handled up to its
\* first Write; a panic in the goroutine is not recovered
Scan ==
    /\ ScannerReady(wpc)
    /\ slog.read < Len(upstream)
    /\ LET l == upstream[slog.read + 1]
           h == HandleLine(l, StreamHeaders, srule)
       IN  /\ line' = l
           /\ slog' = [slog EXCEPT !.read = @ + 1]
           /\ IF h.panicked
              THEN /\ wpc' = "panic"
                   /\ pending' = <<>>
              ELSE /\ wpc' = "write"
                   /\ pending' = h.writes
    /\ UNCHANGED <<srule, upstream, scanErr, feed, pipe, client, rclosed, wclosed>>
    /\ UNCHANGED <<reqVars, opsVars, relVars, ldVars, runVars>>

\* the deferred Close alone decides how the pipe ends
closeWriterAlwaysEOF(err) == "eof"

\* how the pipe writer ends after the loop: CloseWithError(err) when
\* scanner.Err() is not nil, then the deferred Close, which does not replace an
\* error already set
closeWriter(err) == IF err THEN "error" ELSE "eof"

\* scanner.Scan() returns false: CloseWithError on a scanner error, else the
\* deferred Close
ScanEnd ==
    /\ wpc = "scan"
    /\ slog.read = Len(upstream)
    /\ feed = "ended"
    /\ wpc' = "done"
    /\ wclosed' = closeWriter(scanErr)
    /\ UNCHANGED <<srule, upstream, scanErr, feed, line, pending, pipe, client, rclosed, slog>>
    /\ UNCHANGED <<reqVars, opsVars, relVars, ldVars, runVars>>

\* pipeWriter.Write(p) hands p to the pipe and blocks
BeginWrite ==
    /\ wpc = "write"
    /\ ~rclosed
    /\ pipe' = <<Head(pending)>>
    /\ wpc' = "blocked"
    /\ UNCHANGED <<srule, upstream, scanErr, feed, line, pending, client, rclosed, wclosed, slog>>
    /\ UNCHANGED <<reqVars, opsVars, relVars, ldVars, runVars>>

\* the client reads what the blocked Write offers; Write returns nil
ClientRead ==
    /\ wpc = "blocked"
    /\ ~rclosed
    /\ client' = client \o pipe[1]
    /\ pipe' = <<>>
    /\ pending' = Tail(pending)
    /\ IF Tail(pending) = <<>>
       THEN /\ wpc' = "scan"
            /\ line' = NoLine
            /\ slog' = [slog EXCEPT !.written = Append(@, slog.read)]
       ELSE /\ wpc' = "write"
            /\ UNCHANGED <<line, slog>>
    /\ UNCHANGED <<srule, upstream, scanErr, feed, rclosed, wclosed>>
    /\ UNCHANGED <<reqVars, opsVars, relVars, ldVars, runVars>>

\* Write returns io.ErrClosedPipe once the reader is closed: the worker
\* returns, or logs and goes on with the next line, depending on the line
WriteFails ==
    /\ wpc \in {"write", "blocked"}
    /\ rclosed
    /\ pipe' = <<>>
    /\ pending' = <<>>
    /\ line' = NoLine
    /\ slog' = [slog EXCEPT !.failed = Append(@, slog.read)]
    /\ IF HandleLine(line, StreamHeaders, srule).onFail = "return"
       THEN /\ wpc' = "done"
            /\ wclosed' = "eof"
       ELSE /\ wpc' = "scan"
            /\ UNCHANGED wclosed
    /\ UNCHANGED <<srule, upstream, scanErr, feed, client, rclosed>>
    /\ UNCHANGED <<reqVars, opsVars, relVars, ldVars, runVars>>

\* the client disconnects: the reverse proxy closes resp.Body, the pipe reader
ClientClose ==
    /\ wpc \in {"scan", "write", "blocked", "done"}
    /\ ~rclosed
    /\ rclosed' = TRUE
    /\ UNCHANGED <<srule, upstream, scanErr, feed, wpc, line, pending, pipe, client, wclosed, slog>>
    /\ UNCHANGED <<reqVars, opsVars, relVars, ldVars, runVars>>

NextStream ==
    \/ UpstreamSend
    \/ UpstreamEnd
    \/ Scan
    \/ ScanEnd
    \/ BeginWrite
    \/ ClientRead
    \/ WriteFails
    \/ ClientClose

SpecStream == InitStream /\ [][NextStream]_vars

\* The Go scheduler runs a runnable goroutine: the worker takes every step it
\* can take.  A client that is connected keeps reading.  Nothing makes
\* upstream send or end, and nothing makes the client disconnect.
FairStream ==
    /\ WF_vars(Scan)
    /\ WF_vars(ScanEnd)
    /\ WF_vars(BeginWrite)
    /\ WF_vars(ClientRead)
    /\ WF_vars(WriteFails)

SpecStreamLive == SpecStream /\ FairStream

-----------------------------------------------------------------------------
(* SpecReload: the reload controller of main.go.  A configuration is named  *)
(* by an identifier; what matters of it is its proxies (listen address,     *)
(* target, certificate) and the files Load reports for watching.            *)

Cfgs == 1..4
Addrs == {"A", "B"}

ProxiesOf(c) ==
    CASE c = 1 -> <<[Listen |-> "A", Target |-> "ok", Cert |-> "none"]>>
      [] c = 2 -> <<[Listen |-> "A", Target |-> "ok", Cert |-> "none"]>>
      [] c = 3 -> <<[Listen |-> "B", Target |-> "ok", Cert |-> "bad"]>>
      [] c = 4 -> <<[Listen |-> "A", Target |-> "ok", Cert |-> "none"],
                    [Listen |-> "B", Target |-> "ok", Cert |-> "none"]>>
      [] OTHER -> <<>>

FilesOf(c) ==
    CASE c = 2 -> {"main", "inc"}
      [] c = 3 -> {"main", "cert"}
      [] OTHER -> {"main"}

DiskStates == {0} \cup Cfgs

\* config.Load(configPaths, overrides) on the files as they are; 0 stands for
\* files that do not load, validate or compile
LoadFromDisk(d) ==
    IF d = 0 THEN [err |-> TRUE, cfg |-> 0, files |-> {}]
    ELSE [err |-> FALSE, cfg |-> d, files |-> FilesOf(d)]

\* a failed Load is not noticed
loadFailedIgnored(l) == FALSE
\* if err != nil { return }
loadFailed(l) == l.err

Free == [kind |-> "free", cfg |-> 0, by |-> 0]
Foreign == [kind |-> "foreign", cfg |-> 0, by |-> 0]
Owner(srv) == [kind |-> "server", cfg |-> srv.cfg, by |-> srv.by]

\* startProxy: "error" when url.Parse fails, "fatal" when CreateServer cannot
\* load the certificate (logger.Fatal exits), else the server is created and
\* its goroutine will call ListenAndServe
startProxy(proxyCfg) ==
    IF proxyCfg.Target # "ok" THEN "error"
    ELSE IF proxyCfg.Cert = "bad" THEN "fatal"
    ELSE "ok"

RECURSIVE startLoop(_, _, _, _)
startLoop(c, by, i, servers) ==
    IF i > Len(ProxiesOf(c)) THEN [exited |-> FALSE, err |-> FALSE, servers |-> servers]
    ELSE LET proxyCfg == ProxiesOf(c)[i]
             r == startProxy(proxyCfg)
         IN  IF r # "ok"
             THEN [exited |-> TRUE, err |-> r = "error", servers |-> servers]
             ELSE startLoop(c, by, i + 1,
                            Append(servers, [cfg |-> c, listen |-> proxyCfg.Listen,
                                             by |-> by, st |-> "starting"]))

\* startAllProxies(cfg): appends to runningServers; a startProxy error is
\* reported with logger.Fatal, which exits before the error is returned
startAllProxies(c, by, servers) == startLoop(c, by, 1, servers)

\* stopAllProxies: Shutdown closes the listener of every running server
stopAllProxies(servers, p) ==
    [a \in DOMAIN p |->
        IF \E i \in DOMAIN servers : servers[i].st = "listening" /\ p[a] = Owner(servers[i])
        THEN Free ELSE p[a]]

\* the handler reads the global currentConfig
HandlerConfigGlobal(rq) == currentConfig
\* proxyConfigForHandlers, captured by the handlers of the server
HandlerConfig(rq) == rq.srvCfg

NoReload == [pc |-> "idle", newCfg |-> 0, newFiles |-> {}, loadErr |-> FALSE,
             committed |-> FALSE, restored |-> FALSE]

InitReload ==
    /\ IdleReq
    /\ IdleOps
    /\ IdleStr
    /\ IdleLd
    /\ IdleRun
    /\ disk = 1
    /\ currentConfig = 1
    /\ watchedFiles = FilesOf(1)
    /\ runningServers = startAllProxies(1, 0, <<>>).servers
    /\ ports \in {[a \in Addrs |-> IF a = "B" THEN x ELSE Free] : x \in {Free, Foreign}}
    /\ reloads = [r \in 1..MaxReloads |-> NoReload]
    /\ reqs = <<>>
    /\ exited = FALSE

otherVars == <<reqVars, opsVars, strVars, ldVars, runVars>>

\* a watched file changes and the debounce timer fires: reloadConfig starts
\* in a goroutine of its own
FileEvent ==
    /\ ~exited
    /\ \E r \in 1..MaxReloads :
         /\ reloads[r].pc = "idle"
         /\ \A q \in 1..(r - 1) : reloads[q].pc # "idle"
         /\ reloads' = [reloads EXCEPT ![r].pc = "start"]
    /\ disk' \in DiskStates
    /\ UNCHANGED <<currentConfig, watchedFiles, runningServers, ports, reqs, exited>>
    /\ UNCHANGED otherVars

\* reloadConfig: config.Load; on error log and return
ReloadLoad(r) ==
    /\ ~exited
    /\ reloads[r].pc = "start"
    /\ LET l == LoadFromDisk(disk) IN
         IF loadFailed(l)
         THEN reloads' = [reloads EXCEPT ![r].pc = "done", ![r].loadErr = TRUE]
         ELSE reloads' = [reloads EXCEPT ![r].pc = "loaded", ![r].newCfg = l.cfg,
                                         ![r].newFiles = l.files, ![r].loadErr = l.err]
    /\ UNCHANGED <<disk, currentConfig, watchedFiles, runningServers, ports, reqs, exited>>
    /\ UNCHANGED otherVars

\* reloadConfig: stopAllProxies()
ReloadStop(r) ==
    /\ ~exited
    /\ reloads[r].pc = "loaded"
    /\ ports' = stopAllProxies(runningServers, ports)
    /\ runningServers' = <<>>
    /\ reloads' = [reloads EXCEPT ![r].pc = "stopped"]
    /\ UNCHANGED <<disk, currentConfig, watchedFiles, reqs, exited>>
    /\ UNCHANGED otherVars

\* reloadConfig: startAllProxies(newCfg), and startAllProxies(currentConfig)
\* if it returns an error
ReloadStart(r) ==
    /\ ~exited
    /\ reloads[r].pc = "stopped"
    /\ LET res == startAllProxies(reloads[r].newCfg, r, runningServers) IN
         IF res.exited
         THEN /\ exited' = TRUE
              /\ UNCHANGED <<runningServers, reloads>>
         ELSE IF res.err
         THEN LET old == startAllProxies(currentConfig, r, res.servers) IN
              /\ exited' = old.err
              /\ runningServers' = old.servers
              /\ reloads' = [reloads EXCEPT ![r].pc = "done", ![r].restored = TRUE]
         ELSE /\ runningServers' = res.servers
              /\ reloads' = [reloads EXCEPT ![r].pc = "started"]
              /\ UNCHANGED exited
    /\ UNCHANGED <<disk, currentConfig, watchedFiles, ports, reqs>>
    /\ UNCHANGED otherVars

\* reloadConfig: currentConfig = newCfg; watchedFiles = newFiles; setWatcher
ReloadCommit(r) ==
    /\ ~exited
    /\ reloads[r].pc = "started"
    /\ currentConfig' = reloads[r].newCfg
    /\ watchedFiles' = reloads[r].newFiles
    /\ reloads' = [reloads EXCEPT ![r].pc = "done", ![r].committed = TRUE]
    /\ UNCHANGED <<disk, runningServers, ports, reqs, exited>>
    /\ UNCHANGED otherVars

\* the goroutine of a server calls ListenAndServe: it binds the address, or
\* fails and the error is only logged
ServerListen(i) ==
    /\ ~exited
    /\ runningServers[i].st = "starting"
    /\ IF ports[runningServers[i].listen] = Free
       THEN /\ ports' = [ports EXCEPT ![runningServers[i].listen] = Owner(runningServers[i])]
            /\ runningServers' = [runningServers EXCEPT ![i].st = "listening"]
       ELSE /\ runningServers' = [runningServers EXCEPT ![i].st = "failed"]
            /\ UNCHANGED ports
    /\ UNCHANGED <<disk, currentConfig, watchedFiles, reloads, reqs, exited>>
    /\ UNCHANGED otherVars

\* a listening server accepts a request
Accept(i) ==
    /\ ~exited
    /\ runningServers[i].st = "listening"
    /\ Len(reqs) < MaxReqs
    /\ reqs' = Append(reqs, [srvCfg |-> runningServers[i].cfg, rule |-> 0, by |-> 0,
                             st |-> "accepted"])
    /\ UNCHANGED <<disk, currentConfig, watchedFiles, runningServers, ports, reloads, exited>>
    /\ UNCHANGED otherVars

\* the Director runs ModifyRequest with the handler's configuration and
\* records a rule of it in the request context
Forward(k) ==
    /\ ~exited
    /\ reqs[k].st = "accepted"
    /\ reqs' = [reqs EXCEPT ![k].rule = HandlerConfig(reqs[k]), ![k].st = "forwarded"]
    /\ UNCHANGED <<disk, currentConfig, watchedFiles, runningServers, ports, reloads, exited>>
    /\ UNCHANGED otherVars

\* ModifyResponse transforms the response with the rule found in the context
Respond(k) ==
    /\ ~exited
    /\ reqs[k].st = "forwarded"
    /\ reqs' = [reqs EXCEPT ![k].by = reqs[k].rule, ![k].st = "responded"]
    /\ UNCHANGED <<disk, currentConfig, watchedFiles, runningServers, ports, reloads, exited>>
    /\ UNCHANGED otherVars

NextReload ==
    \/ FileEvent
    \/ \E r \in 1..MaxReloads : ReloadLoad(r)
    \/ \E r \in 1..MaxReloads : ReloadStop(r)
    \/ \E r \in 1..MaxReloads : ReloadStart(r)
    \/ \E r \in 1..MaxReloads : ReloadCommit(r)
    \/ \E i \in DOMAIN runningServers : ServerListen(i)
    \/ \E i \in DOMAIN runningServers : Accept(i)
    \/ \E k \in DOMAIN reqs : Forward(k)
    \/ \E k \in DOMAIN reqs : Respond(k)

SpecReload == InitReload /\ [][NextReload]_vars

-----------------------------------------------------------------------------
(* SpecLoad: one call of config.Load on one config path.  The root node of  *)
(* a file is either a configuration mapping or the mapping {include: path}; *)
(* expandIncludes follows the latter, one frame of loadIncludeNode per      *)
(* file.  The proxies and rules of the document are drawn when Load         *)
(* decodes it.  Paths are strings (sequences of characters).                *)

\* YAML null (a nil any), a value distinct from every number of Values
Null == 3

\* proxies[i].Timeout = 60 * time.Second
DefaultTimeout == 60

Files == {<<"f">>, <<"g">>}
\* a path no file is stored under
Unreadable == <<"x">>
\* what a file's root node is: <<>> for a configuration mapping, else the
\* file its include path resolves to
Roots == {<<>>} \cup Files \cup {Unreadable}

\* filepath.Dir(configPath) and os.Getwd()
ConfigDir == <<"d">>
Pwd == <<"w">>

ResolvePath(filePath, baseDir) ==
    IF filePath = <<>> THEN <<>>
    ELSE IF filePath[1] = "/" THEN filePath
    ELSE baseDir \o <<"/">> \o filePath

Overrides ==
    [Listen : {"", "L"}, Target : {"", "T"}, Timeout : {0, 7},
     SSLCert : {<<>>, <<"c">>}, SSLKey : {<<>>, <<"k">>}, Debug : BOOLEAN]

\* ProxyConfig{}
BlankProxy ==
    [Listen |-> "", Target |-> "", Timeout |-> 0, SSLCert |-> <<>>, SSLKey |-> <<>>,
     Debug |-> FALSE, Rules |-> <<>>]

\* proxies a document declares
ProxyProfiles ==
    {BlankProxy,
     [BlankProxy EXCEPT !.Listen = "A", !.Target = "U"],
     [BlankProxy EXCEPT !.Listen = "B", !.Target = "U", !.Timeout = 5,
                        !.SSLCert = <<"c">>, !.SSLKey = <<"k">>]}

ProxyLists == UNION {[1..n -> ProxyProfiles] : n \in 0..MaxProxies}

\* operations a document declares: a merge, a merge with an empty key, a
\* default with a null value, no action at all, a template that does not parse
LoadOps ==
    {OpMergeA,
     [NoOp EXCEPT !.Merge = [k \in {""} |-> 1]],
     [NoOp EXCEPT !.Default = [k \in {"a"} |-> Null]],
     NoOp,
     [NoOp EXCEPT !.Template = "tbad"]}

LoadRules ==
    {[Methods |-> PatternOf("p"), Paths |-> PatternOf("a"), TargetPath |-> <<>>,
      OnRequest |-> <<o>>, OnResponse |-> <<>>] : o \in LoadOps}
    \cup
    {[Methods |-> PatternOf("p"), Paths |-> PatternOf("a"), TargetPath |-> <<"a">>,
      OnRequest |-> <<OpMergeA>>, OnResponse |-> <<>>]}

LoadRuleLists == {<<>>} \cup {<<r>> : r \in LoadRules}

overridesHasProxyValues(overrides) ==
    \/ overrides.Listen # ""
    \/ overrides.Target # ""
    \/ overrides.Timeout > 0
    \/ overrides.SSLCert # <<>>
    \/ overrides.SSLKey # <<>>

applyOverrides(proxy, overrides, pwd) ==
    [proxy EXCEPT
       !.Listen = IF overrides.Listen # "" THEN overrides.Listen ELSE @,
       !.Target = IF overrides.Target # "" THEN overrides.Target ELSE @,
       !.Timeout = IF overrides.Timeout > 0 THEN overrides.Timeout ELSE @,
       !.SSLCert = IF overrides.SSLCert # <<>> THEN ResolvePath(overrides.SSLCert, pwd) ELSE @,
       !.SSLKey = IF overrides.SSLKey # <<>> THEN ResolvePath(overrides.SSLKey, pwd) ELSE @,
       !.Debug = IF overrides.Debug THEN overrides.Debug ELSE @]

\* Load: cfg.Proxies[i].SSLCert = ResolvePath(cfg.Proxies[i].SSLCert, configDir)
resolveSSL(proxies) ==
    [i \in DOMAIN proxies |->
       [proxies[i] EXCEPT !.SSLCert = ResolvePath(@, ConfigDir),
                          !.SSLKey = ResolvePath(@, ConfigDir)]]

\* Load: "Resolve to a final proxy list"
resolveProxies(proxies, overrides) ==
    IF Len(proxies) = 0 /\ overridesHasProxyValues(overrides)
    THEN <<BlankProxy>>
    ELSE proxies

\* Load: the body of "for i := range proxies"
finishProxy(proxy, n, overrides, rules) ==
    LET p1 == IF n = 1 THEN applyOverrides(proxy, overrides, Pwd)
              ELSE IF overrides.Debug THEN [proxy EXCEPT !.Debug = TRUE]
              ELSE proxy
        p2 == IF p1.Timeout = 0 THEN [p1 EXCEPT !.Timeout = DefaultTimeout] ELSE p1
    IN  IF Len(p2.Rules) = 0 /\ Len(rules) > 0 THEN [p2 EXCEPT !.Rules = rules] ELSE p2

\* validateOperation: nil when the operation passes (every pattern of the
\* model compiles)
validateOperation(op) ==
    IF op.Template # "" THEN TRUE
    ELSE ~(DOMAIN op.Merge = {} /\ DOMAIN op.Default = {} /\ Len(op.Delete) = 0)

\* validateRule: nil when the rule passes
validateRule(rule) ==
    /\ Len(rule.Methods.Patterns) # 0
    /\ Len(rule.Paths.Patterns) # 0
    /\ ~(Len(rule.OnRequest) = 0 /\ Len(rule.OnResponse) = 0)
    /\ rule.TargetPath # <<>> => rule.TargetPath[1] = "/"
    /\ \A i \in DOMAIN rule.OnRequest : validateOperation(rule.OnRequest[i])
    /\ \A i \in DOMAIN rule.OnResponse : validateOperation(rule.OnResponse[i])

\* config.Validate: nil when the configuration passes
ValidateConfig(config) ==
    /\ Len(config.Proxies) # 0
    /\ \A i \in DOMAIN config.Proxies :
         LET proxy == config.Proxies[i]
             rules == IF Len(proxy.Rules) = 0 THEN config.Rules ELSE proxy.Rules
         IN  /\ proxy.Listen # ""
             /\ proxy.Target # ""
             /\ (proxy.SSLCert # <<>>) = (proxy.SSLKey # <<>>)
             /\ \A j \in 1..(i - 1) : config.Proxies[j].Listen # proxy.Listen
             /\ \A j \in DOMAIN rules : validateRule(rules[j])

\* template.New(...).Parse(op.Template) succeeds
TemplateParses(tmpl) == tmpl # "tbad"

\* compileRuleTemplates: nil when every template parses
compileRuleTemplates(rules) ==
    \A i \in DOMAIN rules :
        /\ \A j \in DOMAIN rules[i].OnRequest : TemplateParses(rules[i].OnRequest[j].Template)
        /\ \A j \in DOMAIN rules[i].OnResponse : TemplateParses(rules[i].OnResponse[j].Template)

\* CompileTemplates: nil when every template parses
CompileTemplates(config) ==
    /\ compileRuleTemplates(config.Rules)
    /\ \A i \in DOMAIN config.Proxies : compileRuleTemplates(config.Proxies[i].Rules)

NoConfig == [ok |-> FALSE, err |-> "", Proxies |-> <<>>, Rules |-> <<>>, files |-> {}]

Failed(err) == [NoConfig EXCEPT !.err = err]

\* Load from "Resolve to a final proxy list" to its return
LoadTail(decoded, rules, overrides, watched) ==
    LET proxies == resolveProxies(decoded, overrides)
        done == [i \in DOMAIN proxies |->
                    finishProxy(proxies[i], Len(proxies), overrides, rules)]
        merged == [Proxies |-> done, Rules |-> rules]
    IN  IF Len(proxies) = 0 THEN Failed("no proxies configured")
        ELSE IF Len(proxies) > 1 /\ overridesHasProxyValues(overrides)
             THEN Failed("CLI overrides are only supported with a single proxy")
        ELSE IF ~ValidateConfig(merged) THEN Failed("config validation failed")
        ELSE IF ~CompileTemplates(merged) THEN Failed("template compilation failed")
        ELSE [ok |-> TRUE, err |-> "", Proxies |-> done, Rules |-> rules, files |-> watched]

NoLoad == [pc |-> "idle", stack |-> <<>>, watched |-> {}, decoded |-> <<>>, rules |-> <<>>]

InitLoad ==
    /\ IdleReq
    /\ IdleOps
    /\ IdleStr
    /\ IdleRel
    /\ IdleRun
    /\ ldIn = [overrides |-> [Listen |-> "", Target |-> "", Timeout |-> 0,
                              SSLCert |-> <<>>, SSLKey |-> <<>>, Debug |-> FALSE],
               fs |-> [p \in Files |-> <<>>]]
    /\ ldSt = NoLoad
    /\ ldOut = NoConfig

\* Load(configPaths, overrides) is called on the path f: loadConfigFile reads
\* it and calls expandIncludes on its root
CallLoad ==
    /\ ldSt.pc = "idle"
    /\ \E o \in Overrides, fs \in [Files -> Roots] :
         ldIn' = [overrides |-> o, fs |-> fs]
    /\ ldSt' = [NoLoad EXCEPT !.pc = "expand", !.stack = <<(<<"f">>)>>,
                              !.watched = {<<"f">>}]
    /\ UNCHANGED ldOut
    /\ UNCHANGED <<reqVars, opsVars, strVars, relVars, runVars>>

\* expandIncludes meets {include: path}: loadIncludeNode records the path,
\* reads the file and calls expandIncludes on its root, one frame deeper.
\* The goroutine stack holds MaxDepth frames; the runtime aborts the process
\* when a further frame is needed.
ExpandInclude ==
    /\ ldSt.pc = "expand"
    /\ LET top == ldSt.stack[Len(ldSt.stack)]
           path == ldIn.fs[top]
       IN  /\ path # <<>>
           /\ IF path \notin Files
              THEN /\ ldSt' = [ldSt EXCEPT !.pc = "error", !.watched = @ \cup {path}]
                   /\ ldOut' = Failed("failed to read include file")
              ELSE IF Len(ldSt.stack) >= MaxDepth
              THEN /\ ldSt' = [ldSt EXCEPT !.pc = "overflow", !.watched = @ \cup {path}]
                   /\ UNCHANGED ldOut
              ELSE /\ ldSt' = [ldSt EXCEPT !.stack = Append(@, path), !.watched = @ \cup {path}]
                   /\ UNCHANGED ldOut
    /\ UNCHANGED ldIn
    /\ UNCHANGED <<reqVars, opsVars, strVars, relVars, runVars>>

\* expandIncludes finds no include in a root: every open loadIncludeNode
\* returns its node, the caller replaces its include by it and expands the
\* replacement, which holds no include either
ExpandReturn ==
    /\ ldSt.pc = "expand"
    /\ ldIn.fs[ldSt.stack[Len(ldSt.stack)]] = <<>>
    /\ ldSt' = [ldSt EXCEPT !.pc = "decode", !.stack = <<>>]
    /\ UNCHANGED <<ldIn, ldOut>>
    /\ UNCHANGED <<reqVars, opsVars, strVars, relVars, runVars>>

\* root.Decode(&cfg); SSL paths are resolved against the config directory
\* and recorded for watching
LoadDecode ==
    /\ ldSt.pc = "decode"
    /\ \E proxies \in ProxyLists, rules \in LoadRuleLists :
         LET resolved == resolveSSL(proxies)
             ssl == {resolved[i].SSLCert : i \in DOMAIN resolved}
                      \cup {resolved[i].SSLKey : i \in DOMAIN resolved}
         IN  ldSt' = [ldSt EXCEPT !.pc = "merged", !.decoded = resolved, !.rules = rules,
                                  !.watched = @ \cup (ssl \ {<<>>})]
    /\ UNCHANGED <<ldIn, ldOut>>
    /\ UNCHANGED <<reqVars, opsVars, strVars, relVars, runVars>>

\* the rest of Load: overrides, defaults, rule inheritance, Validate,
\* CompileTemplates
LoadFinish ==
    /\ ldSt.pc = "merged"
    /\ ldOut' = LoadTail(ldSt.decoded, ldSt.rules, ldIn.overrides, ldSt.watched)
    /\ ldSt' = [ldSt EXCEPT !.pc = IF ldOut'.ok THEN "done" ELSE "error"]
    /\ UNCHANGED ldIn
    /\ UNCHANGED <<reqVars, opsVars, strVars, relVars, runVars>>

NextLoad ==
    \/ CallLoad
    \/ ExpandInclude
    \/ ExpandReturn
    \/ LoadDecode
    \/ LoadFinish

SpecLoad == InitLoad /\ [][NextLoad]_vars

\* Load is a sequential function: once called it takes its next step
FairLoad ==
    /\ WF_vars(ExpandInclude)
    /\ WF_vars(ExpandReturn)
    /\ WF_vars(LoadDecode)
    /\ WF_vars(LoadFinish)

SpecLoadLive == SpecLoad /\ FairLoad

-----------------------------------------------------------------------------
(* SpecValidate: Load from rule inheritance through Validate and            *)
(* CompileTemplates to the handler configuration startProxy builds, with    *)
(* Go's value and reference semantics.  A PatternField is a value; a        *)
(* match_body or match_headers map is a reference into a heap of maps (0 is *)
(* the nil map), shared by every copy of the Operation that holds it.  Here *)
(* ldIn is the heap and the merged configuration as decoded, ldSt the       *)
(* position, heap and configuration Load works on, ldOut the configuration  *)
(* of each handler.                                                         *)

\* PatternField.UnmarshalYAML: the patterns are stored, nothing is compiled
RawPattern(patterns) == [Patterns |-> patterns, Compiled |-> <<>>]

\* the match maps a document declares, by reference
DecodedMaps ==
    [ref \in 1..2 |->
        IF ref = 1 THEN [k \in {"a"} |-> RawPattern(<<<<"1">>>>)]
        ELSE [k \in {"h"} |-> RawPattern(<<<<"p">>, <<"g">>>>)]]

\* operations a document declares; the last one has no action
ValOps ==
    {[NoOp EXCEPT !.MatchBody = 1, !.MatchHeaders = 0, !.Merge = A1],
     [NoOp EXCEPT !.MatchBody = 0, !.MatchHeaders = 2, !.Default = B1],
     [NoOp EXCEPT !.MatchBody = 1, !.MatchHeaders = 2, !.Delete = <<"a">>],
     [NoOp EXCEPT !.MatchBody = 1, !.MatchHeaders = 0]}

NoOpRule == [OnRequest |-> <<>>, OnResponse |-> <<>>]

ValRules ==
    {[Methods |-> RawPattern(<<<<"p">>>>), Paths |-> RawPattern(<<<<"a">>, <<"b">>>>),
      TargetPath |-> <<>>, OnRequest |-> <<o>>, OnResponse |-> rs, OpRule |-> NoOpRule] :
        o \in ValOps,
        rs \in {<<>>, <<[NoOp EXCEPT !.MatchBody = 0, !.MatchHeaders = 2, !.Merge = A2]>>}}

ValRuleLists == {<<>>} \cup {<<r>> : r \in ValRules}

ValProxies ==
    {[BlankProxy EXCEPT !.Listen = l, !.Target = "U", !.Rules = rules] :
        l \in {"A", "B"}, rules \in ValRuleLists}

\* Load: "If proxy has no rules, inherit shared rules"; append copies the Rule
\* structs, the maps their operations refer to stay shared
inheritRules(proxies, rules) ==
    [i \in DOMAIN proxies |->
        IF Len(proxies[i].Rules) = 0 /\ Len(rules) > 0
        THEN [proxies[i] EXCEPT !.Rules = rules]
        ELSE proxies[i]]

\* every entry of the map behind ref after patterns.Validate() and the
\* assignment of the validated copy to its key
ValidateEntries(ref, heap) ==
    IF ref = 0 THEN heap
    ELSE [heap EXCEPT ![ref] = [key \in DOMAIN heap[ref] |-> Validate(heap[ref][key])]]

\* the range variable is validated, the map keeps what it held
validateOperationOnCopy(op, heap) == heap

\* what validateOperation leaves in the heap: it is called on a copy of the
\* operation and writes through the copy's maps
validateOperationWrites(op, heap) ==
    ValidateEntries(op.MatchHeaders, ValidateEntries(op.MatchBody, heap))

RECURSIVE validateOperationsWrites(_, _)
validateOperationsWrites(ops, heap) ==
    IF ops = <<>> THEN heap
    ELSE validateOperationsWrites(Tail(ops), validateOperationWrites(Head(ops), heap))

\* what validateRule(&rules[j], j) leaves behind: rule.Methods and rule.Paths
\* compiled in place, and the writes of validateOperation for on_request and
\* then on_response
validateRuleWrites(rule, heap) ==
    [rule |-> [rule EXCEPT !.Methods = Validate(@), !.Paths = Validate(@)],
     heap |-> validateOperationsWrites(rule.OnResponse,
                  validateOperationsWrites(rule.OnRequest, heap))]

RECURSIVE validateRulesWrites(_, _, _)
validateRulesWrites(rules, j, heap) ==
    IF j > Len(rules) THEN [rules |-> rules, heap |-> heap]
    ELSE LET w == validateRuleWrites(rules[j], heap)
         IN  validateRulesWrites([rules EXCEPT ![j] = w.rule], j + 1, w.heap)

\* what a Validate that returns nil leaves behind: for each proxy in turn the
\* rules it validates, proxy.Rules or else config.Rules, are written in place
RECURSIVE ValidateWrites(_, _, _)
ValidateWrites(config, i, heap) ==
    IF i > Len(config.Proxies) THEN [config |-> config, heap |-> heap]
    ELSE IF Len(config.Proxies[i].Rules) = 0
    THEN LET w == validateRulesWrites(config.Rules, 1, heap)
         IN  ValidateWrites([config EXCEPT !.Rules = w.rules], i + 1, w.heap)
    ELSE LET w == validateRulesWrites(config.Proxies[i].Rules, 1, heap)
         IN  ValidateWrites([config EXCEPT !.Proxies[i].Rules = w.rules], i + 1, w.heap)

\* OperationExec(op): the fields of op, its maps shared
convertOperation(op) == op

\* compileRuleTemplates: rule.OpRule = opRule for every rule of the list
compileRuleOps(rules) ==
    [i \in DOMAIN rules |->
        [rules[i] EXCEPT !.OpRule =
            [OnRequest |-> [j \in DOMAIN rules[i].OnRequest |->
                               convertOperation(rules[i].OnRequest[j])],
             OnResponse |-> [j \in DOMAIN rules[i].OnResponse |->
                                convertOperation(rules[i].OnResponse[j])]]]]

NoValidate == [pc |-> "idle", heap |-> <<>>, config |-> [Proxies |-> <<>>, Rules |-> <<>>]]

InitValidate ==
    /\ IdleReq
    /\ IdleOps
    /\ IdleStr
    /\ IdleRel
    /\ IdleRun
    /\ ldIn = NoValidate.config
    /\ ldSt = NoValidate
    /\ ldOut = <<>>

\* Load has decoded and merged the documents
ValDecode ==
    /\ ldSt.pc = "idle"
    /\ \E n \in 1..MaxProxies : \E proxies \in [1..n -> ValProxies], rules \in ValRuleLists :
         /\ ldIn' = [Proxies |-> proxies, Rules |-> rules]
         /\ ldSt' = [pc |-> "decoded", heap |-> DecodedMaps, config |-> ldIn']
    /\ UNCHANGED ldOut
    /\ UNCHANGED <<reqVars, opsVars, strVars, relVars, runVars>>

\* Load: for i := range proxies { ... inherit shared rules }
ValInherit ==
    /\ ldSt.pc = "decoded"
    /\ ldSt' = [ldSt EXCEPT !.pc = "merged",
                            !.config.Proxies = inheritRules(@, ldSt.config.Rules)]
    /\ UNCHANGED <<ldIn, ldOut>>
    /\ UNCHANGED <<reqVars, opsVars, strVars, relVars, runVars>>

\* Load: Validate(mergedConfig)
ValValidate ==
    /\ ldSt.pc = "merged"
    /\ IF ValidateConfig(ldSt.config)
       THEN LET w == ValidateWrites(ldSt.config, 1, ldSt.heap)
            IN  ldSt' = [pc |-> "validated", heap |-> w.heap, config |-> w.config]
       ELSE ldSt' = [ldSt EXCEPT !.pc = "failed"]
    /\ UNCHANGED <<ldIn, ldOut>>
    /\ UNCHANGED <<reqVars, opsVars, strVars, relVars, runVars>>

\* Load: CompileTemplates(mergedConfig); no operation of this specification
\* has a template
ValCompile ==
    /\ ldSt.pc = "validated"
    /\ ldSt' = [ldSt EXCEPT
                  !.pc = "compiled",
                  !.config.Rules = compileRuleOps(@),
                  !.config.Proxies = [i \in DOMAIN @ |->
                                         [@[i] EXCEPT !.Rules = compileRuleOps(@)]]]
    /\ UNCHANGED <<ldIn, ldOut>>
    /\ UNCHANGED <<reqVars, opsVars, strVars, relVars, runVars>>

\* startAllProxies: startProxy(proxyCfg) builds proxyConfigForHandlers
ValStart ==
    /\ ldSt.pc = "compiled"
    /\ Len(ldOut) < Len(ldSt.config.Proxies)
    /\ ldOut' = Append(ldOut, [Rules |-> ldSt.config.Proxies[Len(ldOut) + 1].Rules])
    /\ UNCHANGED <<ldIn, ldSt>>
    /\ UNCHANGED <<reqVars, opsVars, strVars, relVars, runVars>>

NextValidate ==
    \/ ValDecode
    \/ ValInherit
    \/ ValValidate
    \/ ValCompile
    \/ ValStart

SpecValidate == InitValidate /\ [][NextValidate]_vars

-----------------------------------------------------------------------------
(* SpecRerun: a rule whose operations hold only merge actions is run on a   *)
(* body and then again on the body the first run left.                      *)

MergeOnlyOps ==
    {[NoOp EXCEPT !.MatchBody = mb, !.Merge = m, !.Stop = st] :
        mb \in MatchBodySet, m \in MergeSet \ {EmptyMap}, st \in BOOLEAN}

InitRerun ==
    /\ IdleReq
    /\ IdleOps
    /\ IdleStr
    /\ IdleRel
    /\ IdleLd
    /\ rrule = <<>>
    /\ rbody \in DataSet
    /\ rpc = "build"
    /\ runs = <<>>

\* the configuration gives the rule one more operation
AddOperation ==
    /\ rpc = "build"
    /\ Len(rrule) < MaxRerunOps
    /\ \E op \in MergeOnlyOps : rrule' = Append(rrule, op)
    /\ UNCHANGED <<rbody, rpc, runs>>
    /\ UNCHANGED <<reqVars, opsVars, strVars, relVars, ldVars>>

\* ProcessRequest(data, headers, rule, ...) on the body as received
RunFirst ==
    /\ rpc = "build"
    /\ Len(rrule) >= 1
    /\ runs' = <<processOperations(rbody, EmptyMap, rrule)>>
    /\ rpc' = IF runs'[1].panicked THEN "panic" ELSE "ran"
    /\ UNCHANGED <<rrule, rbody>>
    /\ UNCHANGED <<reqVars, opsVars, strVars, relVars, ldVars>>

\* ProcessRequest again, on the map the first run worked on
RunAgain ==
    /\ rpc = "ran"
    /\ Len(runs) = 1
    /\ runs' = Append(runs,
                 processOperations([isNil |-> runs[1].isNil, kv |-> runs[1].kv],
                                   EmptyMap, rrule))
    /\ rpc' = IF runs'[2].panicked THEN "panic" ELSE "ran"
    /\ UNCHANGED <<rrule, rbody>>
    /\ UNCHANGED <<reqVars, opsVars, strVars, relVars, ldVars>>

NextRerun ==
    \/ AddOperation
    \/ RunFirst
    \/ RunAgain

SpecRerun == InitRerun /\ [][NextRerun]_vars

-----------------------------------------------------------------------------
(* Properties of the operation interpreter (SpecOps) *)

Entry(m, k) == IF k \in DOMAIN m THEN <<m[k]>> ELSE <<>>

\* C3: once an operation with stop: true has executed, no later operation of
\* the call executes: the loop starts no further iteration, the body does not
\* change and appliedValues gets no entry.
C3_StopEndsRule ==
    [][hist.stopFired =>
         /\ opIdx' = opIdx
         /\ hist'.executed = hist.executed
         /\ ist'.kv = ist.kv
         /\ ist'.appliedValues = ist.appliedValues]_vars

\* a second operation stopped the loop while a further iteration was possible
C3_Witness ==
    /\ opc = "done"
    /\ hist.stopFired
    /\ cur.Stop
    /\ opIdx = 2
    /\ hist.executed = 2
    /\ opIdx < MaxOps

\* C8: the default step of an executed operation leaves every key that is
\* present in the body as it is, in the body and in appliedValues / opChanges;
\* it sets exactly the keys of default that are absent.
C8_DefaultOnlyWhenAbsent ==
    [][(opc = "default" /\ opc' # "default") =>
         /\ \A k \in DOMAIN ist.kv :
              /\ k \in DOMAIN ist'.kv
              /\ ist'.kv[k] = ist.kv[k]
              /\ Entry(ist'.appliedValues, k) = Entry(ist.appliedValues, k)
              /\ Entry(ist'.opChanges, k) = Entry(ist.opChanges, k)
         /\ \A k \in (DOMAIN cur'.Default) \ (DOMAIN ist.kv) :
              \/ ist'.panicked
              \/ /\ Entry(ist'.kv, k) = <<cur'.Default[k]>>
                 /\ Entry(ist'.appliedValues, k) = <<cur'.Default[k]>>
         /\ \A k \in Keys \ ((DOMAIN cur'.Default) \cup (DOMAIN ist.kv)) :
              k \notin DOMAIN ist'.kv]_vars

\* default {a: 1} has run on a body holding a = 2
C8_Witness ==
    /\ opc = "merge"
    /\ "a" \in DOMAIN cur.Default
    /\ ~ist.isNil
    /\ Entry(ist.kv, "a") = <<2>>
    /\ "a" \notin DOMAIN ist.opChanges

\* the template step of the current operation ran a template whose output
\* parsed, and ExecuteTemplate returned true
TemplateSucceeds ==
    /\ opc = "template"
    /\ opc' = "default"
    /\ cur'.Template # ""
    /\ TemplateResult(cur'.Template, ist.kv).ok

\* C19: when the template of an operation executes successfully, right after
\* the template step the body is the template output (exactly its top-level
\* keys, with its values; every other key is gone) and every key of the body
\* is recorded in appliedValues with its value.
C19_TemplateReplacesBody ==
    [][TemplateSucceeds =>
         /\ DOMAIN ist'.kv = DOMAIN TemplateResult(cur'.Template, ist.kv).result
         /\ ist'.kv = TemplateResult(cur'.Template, ist.kv).result
         /\ \A k \in DOMAIN ist'.kv :
              Entry(ist'.appliedValues, k) = <<ist'.kv[k]>>]_vars

\* the first operation's template {"b": {{.a}}} has run on a body holding only a
C19_Witness ==
    /\ opc = "default"
    /\ opIdx = 1
    /\ cur.Template = "tcopy"
    /\ DOMAIN bodyStrings = {"a"}
    /\ DOMAIN ist.kv = {"b"}
    /\ ist.appliedValues = ist.kv

\* C20: when an executed operation has run its default, merge and delete, a
\* key of both default and merge that is not deleted holds the merge value,
\* and a key of merge or default that delete names is absent from the body
\* and recorded as "<deleted>".
C20_DefaultMergeDeleteOrder ==
    opc = "stop" =>
        LET deleted == {cur.Delete[i] : i \in DOMAIN cur.Delete} IN
        /\ \A k \in ((DOMAIN cur.Default) \cap (DOMAIN cur.Merge)) \ deleted :
             Entry(ist.kv, k) = <<cur.Merge[k]>>
        /\ \A k \in ((DOMAIN cur.Default) \cup (DOMAIN cur.Merge)) \cap deleted :
             /\ k \notin DOMAIN ist.kv
             /\ Entry(ist.appliedValues, k) = <<Deleted>>

\* default {a: 1}, merge {a: 2} and delete [a] have run on a body without a
C20_Witness ==
    /\ opc = "stop"
    /\ opIdx = 1
    /\ "a" \notin DOMAIN bodyStrings
    /\ cur.Default = [k \in {"a"} |-> 1]
    /\ cur.Merge = [k \in {"a"} |-> 2]
    /\ cur.Delete = <<"a">>
    /\ "a" \notin DOMAIN ist.kv
    /\ Entry(ist.appliedValues, "a") = <<Deleted>>

\* C21, as stated: when an executed operation has run its default, merge and
\* delete, each key its default or merge step set is present in the body with
\* the value that step gave it.
C21_DefaultMergeNotErased ==
    opc = "stop" =>
        /\ \A k \in DOMAIN hist.defaulted : Entry(ist.kv, k) = <<hist.defaulted[k]>>
        /\ \A k \in DOMAIN cur.Merge : Entry(ist.kv, k) = <<cur.Merge[k]>>

\* C21, amended: when an executed operation has run its default, merge and
\* delete, each key its default or merge step set and its delete does not
\* name is present in the body, with the merge value when merge names it and
\* else with the value default gave it.
C21_DefaultMergeKeptUnlessDeleted ==
    opc = "stop" =>
        \A k \in ((DOMAIN hist.defaulted) \cup (DOMAIN cur.Merge))
                    \ {cur.Delete[i] : i \in DOMAIN cur.Delete} :
            Entry(ist.kv, k) =
                IF k \in DOMAIN cur.Merge THEN <<cur.Merge[k]>> ELSE <<hist.defaulted[k]>>

\* default set b, merge overwrote a, nothing was deleted
C21_Witness ==
    /\ opc = "stop"
    /\ hist.defaulted = [k \in {"b"} |-> 2]
    /\ cur.Merge = [k \in {"a"} |-> 2]
    /\ cur.Delete = <<>>
    /\ Entry(bodyStrings, "a") = <<Sprint(1)>>
    /\ opIdx = 1
    /\ ist.kv = [k \in {"a", "b"} |-> 2]

\* C22: an operation whose match_body or match_headers condition fails
\* changes nothing, whatever its stop flag, and the loop goes on to the next
\* operation.
C22_SkippedStopNotConsumed ==
    [][(opc = "loop" /\ opIdx' = opIdx + 1 /\ opc' # "template") =>
         /\ ist' = ist
         /\ opc' = "loop"
         /\ hist'.stopFired = hist.stopFired]_vars

\* the first operation was skipped with stop: true and the second one executes
C22_Witness ==
    /\ hist.skippedStop
    /\ ~hist.stopFired
    /\ opIdx = 2
    /\ hist.executed = 1
    /\ opc = "stop"
    /\ DOMAIN ist.opChanges # {}

\* C23: an operation executes exactly when its match_headers condition holds
\* and its match_body condition holds of the body as the preceding operations
\* of the call left it.
C23_MatchBodySeesCurrentBody ==
    [][(opc = "loop" /\ opIdx' = opIdx + 1) =>
         ((opc' = "template") <=>
            (/\ bodyMatch(cur'.MatchBody, toStringMap(ist.kv))
             /\ headersMatch(cur'.MatchHeaders, hdrs)))]_vars

-----------------------------------------------------------------------------
(* Properties of the request / response handlers (Spec) *)

\* the rule matches the request: methods matches the method and paths the path
RuleMatches(rule, r) == Matches(rule.Methods, r.Method) /\ Matches(rule.Paths, r.Path)

\* the rules of the configuration that match the request as it was received
MatchingRules == FindMatchingRules(recv, cfg)
LastMatching == IF MatchingRules = <<>> THEN 0 ELSE MatchingRules[Len(MatchingRules)]

\* the target_path of the last matching rule that sets one, else the received path
RECURSIVE RewrittenPath(_, _)
RewrittenPath(path, idxs) ==
    IF idxs = <<>> THEN path
    ELSE LET t == cfg.Rules[Head(idxs)].TargetPath
         IN  RewrittenPath(IF t # <<>> THEN t ELSE path, Tail(idxs))

\* the on_request operations of the given rules run in order on one body map
RECURSIVE RunRules(_, _, _)
RunRules(data, headers, idxs) ==
    IF idxs = <<>> THEN data
    ELSE LET rule == cfg.Rules[Head(idxs)]
             res == processOperations(data, headers, rule.OnRequest)
         IN  IF Len(rule.OnRequest) = 0 THEN RunRules(data, headers, Tail(idxs))
             ELSE RunRules([isNil |-> res.isNil, kv |-> res.kv], headers, Tail(idxs))

RequestDone == pc \in {"forwarded", "panic"}
ResponseDone == pc \in {"responded", "streaming", "resp-panic"}

C2_NonMatchingRuleInert ==
    RequestDone =>
        \A i \in DOMAIN cfg.Rules :
            ~RuleMatches(cfg.Rules[i], recv) =>
                /\ \A k \in DOMAIN trace.calls : trace.calls[k].rule # i
                /\ \A k \in DOMAIN trace.applied : trace.applied[k] # i

\* C4: all matching rules run in configuration order against one shared body
\* map: the body forwarded is the received body after the on_request operations
\* of every matching rule, each rule seeing the body as left by the earlier ones.
C4_SharedBodyInOrder ==
    (pc = "forwarded" /\ recv.Body.kind = "obj") =>
        req.Body = Marshal(RunRules(Unmarshal(recv.Body).data, recv.Header, MatchingRules))

\* C5: the response pipeline applies the on_response operations of the last rule
\* that matched the request and of no other rule; when no rule matched or the
\* last matched rule has an empty on_response the response body is unchanged.
C5_LastMatchedRuleOnly ==
    ResponseDone =>
        /\ req.ctxRule = LastMatching
        /\ resp.ran \in {0, LastMatching}
        /\ (LastMatching = 0 \/ Len(cfg.Rules[LastMatching].OnResponse) = 0) =>
               /\ pc = "responded"
               /\ resp.out = resp.in

\* C6: after ModifyRequest the outbound path is the target_path of the last
\* matching rule that sets one, and the received path when no matching rule
\* sets target_path.
C6_LastTargetPathWins ==
    pc = "forwarded" => req.Path = RewrittenPath(recv.Path, MatchingRules)

\* C7: when the request body is empty or does not parse as a JSON object,
\* ModifyRequest forwards the body bytes unchanged and runs no on_request
\* operation, still applies the target_path rewrite of the matching rules and
\* still records the last matched rule.
C7_NonObjectBodyPassthrough ==
    (RequestDone /\ recv.Body.kind # "obj") =>
        /\ pc = "forwarded"
        /\ req.Body = ReadAll(recv.Body)
        /\ trace.calls = <<>>
        /\ req.Path = RewrittenPath(recv.Path, MatchingRules)
        /\ req.ctxRule = LastMatching

\* C24: the rules ModifyRequest applies are the matcher's result for the method
\* and path as received: a target_path rewrite by an earlier matching rule does
\* not change which later rules are applied.
C24_AppliedRulesAreMatcherResult ==
    pc = "forwarded" => trace.applied = MatchingRules

\* a non-empty body that is JSON but not a JSON object: the value null, or one
\* of the bytes json.Unmarshal rejects for a map (array, string, number, boolean)
NonObjectJSON(b) == b.kind \in {"null", "text"}

\* C29: a non-empty request body that is valid JSON but not a JSON object is not
\* treated as transformable: whatever rules match, ModifyRequest completes
\* without failure, runs no operation on it and forwards the body unchanged.
C29_NonObjectJSONNotTransformed ==
    (RequestDone /\ NonObjectJSON(recv.Body)) =>
        /\ pc = "forwarded"
        /\ trace.calls = <<>>
        /\ req.Body = recv.Body

\* C30: after ModifyRequest returns, the request's content length equals the
\* number of bytes of the outbound body, for every inbound body: re-serialized
\* JSON objects, non-JSON bodies passed through, and bodies longer than the read
\* cap that are forwarded truncated at the cap.
C30_ContentLengthIsBodyLength ==
    pc = "forwarded" => req.ContentLength = ByteLen(req.Body)

-----------------------------------------------------------------------------
(* Properties of the streaming worker (SpecStream) *)

\* the line the client is to receive for an input line: an empty line for an
\* empty line, the transformed object (prefixed iff the input was) for a JSON
\* object, and the input line itself for anything else
ExpectedLine(l) ==
    IF IsEmptyLine(l) THEN <<NewlineBytes>>
    ELSE IF l.payload.kind = "obj"
    THEN LET res == processOperations([isNil |-> FALSE, kv |-> l.payload.kv],
                                      StreamHeaders, srule)
         IN  (IF l.pfx THEN <<PrefixBytes>> ELSE <<>>)
             \o <<ObjBytes(res.kv, TRUE), NewlineBytes>>
    ELSE LineBytes(l)

RECURSIVE ExpectedOut(_)
ExpectedOut(n) ==
    IF n = 0 THEN <<>> ELSE ExpectedOut(n - 1) \o ExpectedLine(upstream[n])

\* C9: while the client keeps reading, every line read from upstream gives
\* exactly one line to the client: an empty line for an empty line, the line
\* itself for data: [DONE] and for a payload that is not a JSON object, and the
\* transformed object, prefixed iff the input was, for a JSON object.
C9_OneLineOutPerLineIn ==
    ~rclosed =>
        /\ wpc # "panic"
        /\ wpc \in {"scan", "done"} => client = ExpectedOut(slog.read)

RECURSIVE Flatten(_)
Flatten(chunks) == IF chunks = <<>> THEN <<>> ELSE Head(chunks) \o Flatten(Tail(chunks))

\* what the worker wrote for the lines whose writes completed, in that order
RECURSIVE WrittenOut(_)
WrittenOut(idxs) ==
    IF idxs = <<>> THEN <<>>
    ELSE Flatten(HandleLine(upstream[Head(idxs)], StreamHeaders, srule).writes)
         \o WrittenOut(Tail(idxs))

LinesFinished == Len(slog.written) + Len(slog.failed)

FirstEventDelivered ==
    /\ slog.written # <<>>
    /\ slog.written[1] = 1
    /\ Len(client) >= Len(ExpectedOut(1))
    /\ SubSeq(client, 1, Len(ExpectedOut(1))) = ExpectedOut(1)

\* C11: once upstream has delivered its first event and the client is
\* reading, the transformed first event reaches the client, whether or not
\* upstream delivers anything more or ends the stream.
C11_FirstEventProgress ==
    (Len(upstream) >= 1 /\ ~rclosed) ~> (rclosed \/ FirstEventDelivered)

\* the worker left the loop on a scanner error and the client is connected
ScannerFailed == wpc = "done" /\ feed = "ended" /\ scanErr /\ ~rclosed

\* C25: if reading the upstream stream fails (scanner error), the worker closes
\* the pipe writer with that error: the client has received every line written
\* before the failure and then reads that error, never a clean end of stream.
C25_ScannerErrorReachesClient ==
    ScannerFailed =>
        /\ wclosed = "error"
        /\ slog.failed = <<>>
        /\ slog.written = [k \in 1..Len(upstream) |-> k]
        /\ client = WrittenOut(slog.written)

C25_Witness ==
    /\ ScannerFailed
    /\ wclosed = "error"
    /\ slog.written = <<1, 2>>
    /\ Len(client) >= 2

\* C26: when the client side of the pipe is closed the worker terminates: after
\* a write to the pipe has failed the worker reads no further line from
\* upstream, whatever kind of line (empty, [DONE], non-JSON, JSON) the failed
\* write was for.
C26_NoReadAfterFailedWrite ==
    [][slog.failed # <<>> => slog'.read = slog.read]_vars

-----------------------------------------------------------------------------
(* Properties of the reload controller (SpecReload) *)

\* C12: when Load fails during a reload, that reload changes nothing: no
\* running listener is stopped, currentConfig and the watched-file set stay
\* what they were, and the reload is over.
C12_FailedLoadChangesNothing ==
    [][\A r \in 1..MaxReloads :
          (reloads[r].pc = "start" /\ reloads'[r].pc # "start" /\ disk = 0) =>
              /\ reloads'[r].pc = "done"
              /\ reloads'[r].loadErr
              /\ ~reloads'[r].committed
              /\ UNCHANGED <<runningServers, ports, currentConfig, watchedFiles>>]_vars

C12_Witness ==
    /\ \E r \in 1..MaxReloads : reloads[r].pc = "done" /\ reloads[r].loadErr
    /\ \A r \in 1..MaxReloads : ~reloads[r].committed
    /\ currentConfig = 1
    /\ watchedFiles = FilesOf(1)
    /\ Len(runningServers) = 1
    /\ runningServers[1].st = "listening"

\* a listener started by reload r failed to start
FailedToStart(r) ==
    \E i \in DOMAIN runningServers :
        runningServers[i].by = r /\ runningServers[i].st = "failed"

\* C13: when the listeners of the newly loaded Config fail to start, the
\* reload restarts the listeners of the previous Config and currentConfig
\* stays the previous Config; the process exits only if that restart fails too.
C13_RollbackOnStartFailure ==
    /\ exited => \E r \in 1..MaxReloads : reloads[r].restored
    /\ \A r \in 1..MaxReloads : FailedToStart(r) => ~reloads[r].committed

\* C14: a request accepted by a server of Config C is transformed, request
\* and response, with a rule of C, whatever reloads happen in between; so only
\* requests accepted by the servers of a new Config get its rules.
C14_ResponseUsesRequestConfig ==
    \A k \in DOMAIN reqs :
        /\ reqs[k].st \in {"forwarded", "responded"} => reqs[k].rule = reqs[k].srvCfg
        /\ reqs[k].st = "responded" => reqs[k].by = reqs[k].srvCfg

C14_Witness ==
    /\ Len(reqs) = 2
    /\ reqs[1].st = "responded"
    /\ reqs[1].by = 1
    /\ reqs[2].st = "responded"
    /\ reqs[2].by = 2
    /\ currentConfig = 2
    /\ \E r \in 1..MaxReloads : reloads[r].committed

\* the process runs and no reloadConfig call is between its first and last step
NoReloadInProgress == ~exited /\ \A r \in DOMAIN reloads : reloads[r].pc \in {"idle", "done"}

\* C27: reloads are serialized: whenever no reload is in progress the
\* running-listener set holds exactly one server per proxy of currentConfig,
\* never two servers for one listen address and never servers of two Configs.
C27_OneServerPerProxy ==
    NoReloadInProgress =>
        /\ Len(runningServers) = Len(ProxiesOf(currentConfig))
        /\ \A i \in DOMAIN runningServers :
             /\ runningServers[i].cfg = currentConfig
             /\ runningServers[i].listen = ProxiesOf(currentConfig)[i].Listen

-----------------------------------------------------------------------------
(* Properties of the loader (SpecLoad) *)

\* Load returned from its last part, past include expansion and decoding
LoadReturned ==
    /\ ldSt.pc \in {"done", "error"}
    /\ ldOut.err # "failed to read include file"

\* the returned proxy carries the value of a listen/target/timeout/ssl override
OverrideApplied(proxy, overrides) ==
    \/ overrides.Listen # "" /\ proxy.Listen = overrides.Listen
    \/ overrides.Target # "" /\ proxy.Target = overrides.Target
    \/ overrides.Timeout > 0 /\ proxy.Timeout = overrides.Timeout
    \/ overrides.SSLCert # <<>> /\ proxy.SSLCert = ResolvePath(overrides.SSLCert, Pwd)
    \/ overrides.SSLKey # <<>> /\ proxy.SSLKey = ResolvePath(overrides.SSLKey, Pwd)

\* C15: Load applies the listen/target/timeout/ssl_cert/ssl_key overrides only
\* when the merged configuration (the proxies of the decoded documents) has
\* exactly one proxy; with two or more proxies and any of those overrides set
\* Load fails and returns no Config; the debug override alone does not make
\* Load fail and sets debug on every returned proxy.
C15_OverridesOnlyWithOneProxy ==
    LoadReturned =>
        /\ (ldOut.ok /\ \E i \in DOMAIN ldOut.Proxies :
                            OverrideApplied(ldOut.Proxies[i], ldIn.overrides))
              => Len(ldSt.decoded) = 1
        /\ (Len(ldSt.decoded) >= 2 /\ overridesHasProxyValues(ldIn.overrides))
              => (~ldOut.ok /\ ldOut.Proxies = <<>>)
        /\ (ldIn.overrides.Debug /\ ~overridesHasProxyValues(ldIn.overrides))
              => /\ ldOut.ok = LoadTail(ldSt.decoded, ldSt.rules,
                                        [ldIn.overrides EXCEPT !.Debug = FALSE],
                                        ldSt.watched).ok
                 /\ \A i \in DOMAIN ldOut.Proxies : ldOut.Proxies[i].Debug

\* C16: a call of Load that has started expanding includes returns, with a
\* Config or with an error, whatever the include references of the files are.
C16_LoadTerminates ==
    (ldSt.pc = "expand") ~> (ldSt.pc \in {"done", "error"})

\* every key of the mapping is non-empty and every value is non-null
CleanMapping(m) == \A key \in DOMAIN m : key # "" /\ m[key] # Null

CleanOperations(ops) ==
    \A i \in DOMAIN ops : CleanMapping(ops[i].Merge) /\ CleanMapping(ops[i].Default)

\* C18: a Config that Load returns (one Validate accepted) has only non-empty
\* keys and non-null values in the merge and default of every operation.
C18_ValidationRejectsEmptyKeyOrNull ==
    ldSt.pc = "done" =>
        \A i \in DOMAIN ldOut.Proxies :
            \A j \in DOMAIN ldOut.Proxies[i].Rules :
                /\ CleanOperations(ldOut.Proxies[i].Rules[j].OnRequest)
                /\ CleanOperations(ldOut.Proxies[i].Rules[j].OnResponse)

-----------------------------------------------------------------------------
(* Properties of validation (SpecValidate) *)

\* the compiled list of a PatternField is as long as its source list
CompiledInFull(p) == Len(p.Compiled) = Len(p.Patterns)

\* every entry of the map an operation refers to is compiled in full
MapCompiled(ref) ==
    ref = 0 \/ \A key \in DOMAIN ldSt.heap[ref] : CompiledInFull(ldSt.heap[ref][key])

OpsCompiled(ops) ==
    \A j \in DOMAIN ops : MapCompiled(ops[j].MatchBody) /\ MapCompiled(ops[j].MatchHeaders)

\* the patterns matching uses for the rules of one list: methods, paths, and
\* the match maps of the operations and of the compiled operations
RulesCompiled(rules) ==
    \A i \in DOMAIN rules :
        /\ CompiledInFull(rules[i].Methods)
        /\ CompiledInFull(rules[i].Paths)
        /\ OpsCompiled(rules[i].OnRequest)
        /\ OpsCompiled(rules[i].OnResponse)
        /\ OpsCompiled(rules[i].OpRule.OnRequest)
        /\ OpsCompiled(rules[i].OpRule.OnResponse)

ValidateSucceeded == ldSt.pc \in {"validated", "compiled"}

\* C28: after Validate succeeds every Pattern that will be used for matching,
\* the methods and paths of each rule a proxy runs (own or inherited) and every
\* match_body and match_headers entry of their operations as the compiled
\* operations see them, has a compiled list as long as its source list.
C28_ValidatedPatternsCompiled ==
    ValidateSucceeded =>
        /\ \A i \in DOMAIN ldSt.config.Proxies : RulesCompiled(ldSt.config.Proxies[i].Rules)
        /\ \A i \in DOMAIN ldOut : RulesCompiled(ldOut[i].Rules)

C28_Witness ==
    /\ ldSt.pc = "compiled"
    /\ Len(ldOut) = 2
    /\ Len(ldIn.Proxies[2].Rules) = 0
    /\ Len(ldOut[2].Rules) = 1
    /\ ldOut[2].Rules[1].OpRule.OnRequest[1].MatchBody = 1
    /\ ldOut[2].Rules[1].OpRule.OnResponse # <<>>
    /\ Len(ldSt.heap[1]["a"].Compiled) = 1
    /\ Len(ldSt.heap[2]["h"].Compiled) = 2

-----------------------------------------------------------------------------
(* Properties of a rule run twice (SpecRerun) *)

SecondRunSame ==
    /\ runs[2].kv = runs[1].kv
    /\ runs[2].appliedValues = runs[1].appliedValues

\* C17, as stated: for a rule whose operations hold only merge actions, the
\* second run on the body the first run produced leaves the body unchanged
\* and returns the appliedDiff the first run returned.
C17_MergeOnlyIdempotent ==
    Len(runs) = 2 => SecondRunSame

Unconditional(operations) ==
    \A i \in DOMAIN operations : operations[i].MatchBody = EmptyMap

\* C17, amended: for a rule whose operations hold only merge actions and no
\* match_body condition, the second run on the body the first run produced
\* leaves the body unchanged and returns the appliedDiff the first run
\* returned.
C17_UnconditionalMergeIdempotent ==
    (Len(runs) = 2 /\ Unconditional(rrule)) => SecondRunSame

\* two unconditional merges ran twice on a body the first run had to change
C17_Witness ==
    /\ Len(runs) = 2
    /\ Len(rrule) = 2
    /\ Unconditional(rrule)
    /\ ~rrule[1].Stop
    /\ rbody.kv = [k \in {"a"} |-> 1]
    /\ runs[1].kv = [k \in {"a", "b"} |-> IF k = "a" THEN 2 ELSE 1]
    /\ runs[2].appliedValues = runs[1].kv

====
